---------------------------- MODULE Spec2Model ----------------------------
(***************************************************************************)
(* A model of itkimage2dicomseg's DicomSEGWriter                           *)
(* (src/itkimage2dicomseg/dicom_seg/dicom_seg_writer.py).                  *)
(*                                                                         *)
(* DicomSEGWriter.write is one long synchronous operation that blocks on   *)
(* the operator's console replies.  It is modelled as a state machine      *)
(* whose control position pc walks through the statements of write() and   *)
(* of the two interactive helpers it calls.  File names and console        *)
(* replies are sequences of one-character strings, so that                 *)
(* pathlib.Path.stem, int(), str.lower() and the f-string that builds the  *)
(* output path are computed, not assumed.                                  *)
(*                                                                         *)
(* The module also follows, each under a specification of its own,         *)
(* DicomSEGWriter._resample_mask, the multi-patient script of examples/,   *)
(* SegmentationFilenamePatternsMatcher.matches, PathGenerator and          *)
(* FolderStructurer.                                                       *)
(***************************************************************************)
EXTENDS Integers, Sequences, FiniteSets, TLC

(***************************************************************************)
(* Bounds of the model.                                                    *)
(***************************************************************************)
\* Largest number of entries in the segmentations folder.
MaxFiles == 2
\* Largest number of series in the patient's DICOM folder.
MaxSeries == 2
\* Largest number of association rounds of one segmentation file.
MaxRounds == 2
\* Largest number of voxels of a volume.
MaxVoxels == 2
\* Largest number of successive calls of _resample_mask.
MaxCalls == 2
\* Largest number of entries of the patients folder.
MaxPatients == 2

(***************************************************************************)
(* Characters and strings.                                                 *)
(***************************************************************************)
DIGITS == <<"0", "1", "2", "3", "4", "5", "6", "7", "8", "9">>

UPPERCASE == <<"A", "B", "C", "D", "E", "F", "G", "H", "I", "J", "K", "L", "M",
               "N", "O", "P", "Q", "R", "S", "T", "U", "V", "W", "X", "Y", "Z">>

LOWERCASE == <<"a", "b", "c", "d", "e", "f", "g", "h", "i", "j", "k", "l", "m",
               "n", "o", "p", "q", "r", "s", "t", "u", "v", "w", "x", "y", "z">>

IsDigit(c) == \E d \in 1..Len(DIGITS) : DIGITS[d] = c

DigitValue(c) == (CHOOSE d \in 1..Len(DIGITS) : DIGITS[d] = c) - 1

\* str.lower() on one character.
LowerChar(c) ==
    IF \E j \in 1..Len(UPPERCASE) : UPPERCASE[j] = c
    THEN LOWERCASE[CHOOSE j \in 1..Len(UPPERCASE) : UPPERCASE[j] = c]
    ELSE c

\* str.lower(): answer.lower() of line 270.
Lower(s) == [j \in 1..Len(s) |-> LowerChar(s[j])]

\* f"{i}" for a non-negative integer: its decimal digits.
RECURSIVE Str(_)
Str(n) == IF n < 10 THEN <<DIGITS[n + 1]>> ELSE Str(n \div 10) \o <<DIGITS[(n % 10) + 1]>>

\* str.strip() as int() applies it: leading and trailing blanks are dropped.
RECURSIVE PyStrip(_)
PyStrip(s) ==
    IF s = <<>> THEN s
    ELSE IF s[1] = " " THEN PyStrip(Tail(s))
    ELSE IF s[Len(s)] = " " THEN PyStrip(SubSeq(s, 1, Len(s) - 1))
    ELSE s

\* The digits part of an integer literal: digits, single underscores between them.
WellFormedDigits(s) ==
    /\ Len(s) >= 1
    /\ IsDigit(s[1])
    /\ IsDigit(s[Len(s)])
    /\ \A j \in 1..Len(s) :
          /\ IsDigit(s[j]) \/ s[j] = "_"
          /\ s[j] = "_" => s[j + 1] # "_"

RECURSIVE DigitsValue(_, _)
DigitsValue(s, acc) ==
    IF s = <<>> THEN acc
    ELSE IF s[1] = "_" THEN DigitsValue(Tail(s), acc)
    ELSE DigitsValue(Tail(s), acc * 10 + DigitValue(s[1]))

\* int(series_idx) of line 169: [ok |-> FALSE] is ValueError.
PyInt(s) ==
    LET t == PyStrip(s)
        signed == Len(t) >= 1 /\ t[1] \in {"+", "-"}
        body == IF signed THEN Tail(t) ELSE t
        sign == IF signed /\ t[1] = "-" THEN -1 ELSE 1
    IN  IF WellFormedDigits(body)
        THEN [ok |-> TRUE, val |-> sign * DigitsValue(body, 0)]
        ELSE [ok |-> FALSE, val |-> 0]


(***************************************************************************)
(* File names of the segmentations folder and output paths.                *)
(***************************************************************************)
\* "P.seg.nrrd": two suffixes, as Patient1_CT.seg.nrrd.
P_SEG_NRRD == <<"P", ".", "s", "e", "g", ".", "n", "r", "r", "d">>
\* "P.seg.nii": the same segmentation name in another research format.
P_SEG_NII == <<"P", ".", "s", "e", "g", ".", "n", "i", "i">>
\* "Q": an entry without any suffix.
Q_NOEXT == <<"Q">>

\* The entries os.listdir may find in the segmentations folder.
FileNames == {P_SEG_NRRD, P_SEG_NII, Q_NOEXT}

\* The literal ".SEG.dcm" of line 324.
SEG_DCM == <<".", "S", "E", "G", ".", "d", "c", "m">>

\* name.rfind("."), positions counted from 1; 0 when the name holds no dot.
RFindDot(name) ==
    IF \E j \in 1..Len(name) : name[j] = "."
    THEN CHOOSE j \in 1..Len(name) :
            name[j] = "." /\ \A m \in (j + 1)..Len(name) : name[m] # "."
    ELSE 0

\* A plausible slip: the name is cut at its FIRST dot (all suffixes dropped).
StemAtFirstDot(name) ==
    IF \E j \in 2..(Len(name) - 1) : name[j] = "."
    THEN SubSeq(name, 1, (CHOOSE j \in 2..(Len(name) - 1) :
                            name[j] = "." /\ \A m \in 2..(j - 1) : name[m] # ".") - 1)
    ELSE name

\* pathlib.Path(path_to_seg).stem: the final component without its last suffix.
\* A leading dot and a trailing dot start no suffix.
Stem(name) ==
    LET j == RFindDot(name)
    IN  IF 1 < j /\ j < Len(name) THEN SubSeq(name, 1, j - 1) ELSE name

\* new_path of lines 323-324, relative to the segmentations folder.
NewPath(path_to_seg, idx) == Stem(path_to_seg) \o <<"_">> \o Str(idx) \o SEG_DCM

(***************************************************************************)
(* Console replies.                                                        *)
(***************************************************************************)
\* What the operator may type at the series-index prompt.
IndexReplies ==
    { <<"0">>, <<"1">>, <<"2">>, <<"9">>, <<"-", "1">>, <<"-", "9">>,
      <<" ", "1", " ">>, <<"C", "T">>, <<"1", ".", "0">>, <<>> }

\* What the operator may type at the continuation prompt.
AnswerReplies ==
    { <<"y">>, <<"n">>, <<"Y">>, <<"N">>, <<"y", "e", "s">>, <<"n", "o">>, <<>> }

\* No reply read yet.
NoReply == <<"None">>

\* series_data_list[k] of line 169 on a list of n items: Python accepts
\* -n <= k < n and raises IndexError otherwise; pos is the 0-based position.
PyGetItem(n, k) ==
    IF 0 <= k /\ k < n THEN [ok |-> TRUE, pos |-> k]
    ELSE IF -n <= k /\ k < 0 THEN [ok |-> TRUE, pos |-> n + k]
    ELSE [ok |-> FALSE, pos |-> 0]

\* A plausible slip: the comparison of line 269 made on answer.lower().
AnswerAcceptedAnyCase(a) == Lower(a) = <<"y">> \/ Lower(a) = <<"n">>

\* The test of line 269: answer == "y" or answer == "n".
AnswerAccepted(a) == a = <<"y">> \/ a = <<"n">>

\* A plausible slip: the meaning of the answer inverted.
ProcessCompleteOnYes(a) == Lower(a) \in {<<"y">>}

\* process_complete of line 270: answer.lower() in ["n"].
ProcessComplete(a) == Lower(a) \in {<<"n">>}

(***************************************************************************)
(* State.                                                                  *)
(***************************************************************************)
VARIABLES
    \* write()'s arguments (lines 279-281)
    resample_segmentation_to_source_image_size,
    delete_itk_segmentation_files,
    enable_multi_images_association,
    \* the patient's DICOM folder: the PatientID of the first slice of each series
    dicom_folder,
    \* the names present in the segmentations folder
    segmentations_folder,
    \* the list write() iterates over (line 307), and the position in it
    paths_to_segmentations,
    file_no,
    \* write()'s locals
    process_complete,
    i,
    source_images,
    segmentation,
    image,
    dcm,
    \* the helpers' locals: the last reply read by input() (lines 167, 265)
    series_idx,
    answer,
    \* the control position, and the exception that left write(), if any
    pc,
    raised,
    \* the last thing written to the console
    printed,
    \* the number of identifiers generate_uid has issued
    uid_count,
    \* history: successful save_as calls, os.remove calls,
    \* association rounds started and 'y' answers for the current file
    saved,
    removed,
    rounds,
    yes_answers

\* A call of DicomSEGWriter._resample_mask on its own (lines 223-252): its two
\* arguments and the volumes the successive calls returned.
VARIABLES
    mask,
    reference_image,
    resampled

\* A run of the multi-patient script (examples/create_dicom_seg_files.py,
\* lines 19-29): the listing of the patients folder, the position of the for
\* loop in it, the control position, the exception that ended the script, if
\* any, and the patients whose write() call was made and returned.
VARIABLES
    patients,
    patient_no,
    script_pc,
    script_raised,
    written

\* A SegmentationFilenamePatternsMatcher (paths_manager/
\* segmentation_filename_patterns_matcher.py): its patient id, the listing of
\* its segmentations folder, and what reading its `matches` property gave.
VARIABLES
    patient_id,
    paths_to_segmentation_files,
    matches_returned

\* A PathGenerator (paths_manager/path_generator.py): the listing of the
\* patients folder taken by __init__, the verbose flag, the position of
\* send(), and the outcome of each call of send() so far.
VARIABLES
    paths_to_patients_dicom_folder,
    verbose,
    current_index,
    sent

\* A FolderStructurer (patients_folder_structure/folder_structurer.py): its
\* two structure categories, the argument of destructure, the tree under
\* path_to_patients_folder (each path, a sequence of names, with the folder or
\* file it names), the names in the shared segmentations folder, the control
\* position, the exception that left the method, if any, the methods called
\* so far, and the locals of the loops.  History: the tree and the shared
\* folder at construction.  Environment: whether another process has dropped
\* a file in the tree.
VARIABLES
    images_structure_category,
    segmentations_structure_category,
    delete_segmentations,
    patients_folder,
    shared_segmentations,
    structurer_pc,
    structurer_raised,
    calls,
    loop,
    original,
    foreign

resample_vars == << mask, reference_image, resampled >>
script_vars == << patients, patient_no, script_pc, script_raised, written >>
matcher_vars == << patient_id, paths_to_segmentation_files, matches_returned >>
generator_vars == << paths_to_patients_dicom_folder, verbose, current_index, sent >>

\* The classes of paths_manager.
paths_manager_vars == << matcher_vars, generator_vars >>
structurer_vars == << images_structure_category, segmentations_structure_category,
                      delete_segmentations, patients_folder, shared_segmentations,
                      structurer_pc, structurer_raised, calls, loop, original, foreign >>

\* What a call of write() leaves alone.
outside_write == << resample_vars, script_vars, paths_manager_vars, structurer_vars >>

vars == << resample_segmentation_to_source_image_size,
           delete_itk_segmentation_files, enable_multi_images_association,
           dicom_folder, segmentations_folder, paths_to_segmentations, file_no,
           process_complete, i, source_images, segmentation, image, dcm,
           series_idx, answer, pc, raised, printed, uid_count,
           saved, removed, rounds, yes_answers, outside_write >>

args == << resample_segmentation_to_source_image_size,
           delete_itk_segmentation_files, enable_multi_images_association >>

\* No exception.
NoException == "None"
\* No series chosen, no image read.
NoSeries == -1
\* A label map: the file it was read from, the grid it is on (NoSeries: its
\* own) and the grid the volume it was resampled from was on.
\* No volume loaded, no dataset encoded.
NoSegmentation == [file |-> <<>>, grid |-> NoSeries, from |-> NoSeries]
\* Identifiers carry their issuer: the value of the n-th call of generate_uid
\* (lines 320-321; no two calls return the same value), the identifier the
\* encoding library puts in a dataset it builds (line 318; nothing makes it
\* differ from one dataset to the next), and the identifier of series s of
\* the DICOM folder (line 83).
generate_uid(n) == << "generate_uid", n >>
LibraryUid == << "pydicom_seg", 0 >>
SeriesUid(s) == << "series", s >>
NoUid == << "None", 0 >>
NoDataset == [segmentation |-> NoSegmentation, source_images |-> NoSeries,
              SOPInstanceUID |-> NoUid, SeriesInstanceUID |-> NoUid]

(***************************************************************************)
(* Volumes and sitk.Resample.  A volume is a row of voxels: voxel j, counted *)
(* from 0, is centred at origin + direction * spacing * j.                   *)
(***************************************************************************)
NoVolume == [origin |-> 0, spacing |-> 1, direction |-> 1, size |-> 0,
             pixel_id |-> "None", values |-> <<>>]

\* The label values of a segmentation and the intensities of an image.
Labels == {0, 1, 2}
Intensities == {7}

\* The grids considered for a segmentation and for a reference image.
Grids(origins) ==
    [origin : origins, spacing : {1, 2}, direction : {1, -1}, size : 1..MaxVoxels]

Volumes(origins, pixel_ids, pixel_values) ==
    { [origin |-> g.origin, spacing |-> g.spacing, direction |-> g.direction,
       size |-> g.size, pixel_id |-> t, values |-> v] :
        g \in Grids(origins), t \in pixel_ids,
        v \in UNION { [1..n -> pixel_values] : n \in 1..MaxVoxels } }

Masks ==
    { m \in Volumes({0, 1}, {"sitkUInt8", "sitkUInt16"}, Labels) :
        Len(m.values) = m.size }
ReferenceImages ==
    { m \in Volumes({-1, 0, 1}, {"sitkInt16"}, Intensities) :
        Len(m.values) = m.size }

\* The physical position of the centre of voxel j of volume v.
Position(v, j) == v.origin + v.direction * v.spacing * j

\* sitk.Resample(image1, referenceImage, identity transform, interpolator,
\* defaultPixelValue, outputPixelType): the value at each voxel of the grid of
\* referenceImage is read in image1 at the same physical point.  The point
\* has continuous index num / den in image1; it is inside the buffer of
\* image1 from half a voxel before the first centre to half a voxel after
\* the last one; the nearest voxel is the continuous index rounded half up.
Resample(image1, referenceImage, interpolator, defaultPixelValue, outputPixelType) ==
    LET den == image1.spacing
        num(j) == (Position(referenceImage, j) - image1.origin) * image1.direction
        inside(j) == /\ 2 * num(j) >= - den
                     /\ 2 * num(j) < (2 * image1.size - 1) * den
        at(k) == image1.values[IF k < 0 THEN 1
                               ELSE IF k >= image1.size THEN image1.size
                               ELSE k + 1]
        nearest(j) == at((2 * num(j) + den) \div (2 * den))
        linear(j) == LET k == num(j) \div den
                         r == num(j) % den
                     IN  ((den - r) * at(k) + r * at(k + 1)) \div den
    IN  [origin |-> referenceImage.origin,
         spacing |-> referenceImage.spacing,
         direction |-> referenceImage.direction,
         size |-> referenceImage.size,
         pixel_id |-> outputPixelType,
         values |-> [j \in 1..referenceImage.size |->
                        IF ~inside(j - 1) THEN defaultPixelValue
                        ELSE IF interpolator = "sitkNearestNeighbor"
                        THEN nearest(j - 1)
                        ELSE linear(j - 1)]]

\* A plausible slip: the default interpolator.
resample_mask_linear(mask_, image_) ==
    Resample(mask_, image_, "sitkLinear", 0, mask_.pixel_id)

\* A plausible slip: the two volumes exchanged.
resample_mask_swapped(mask_, image_) ==
    Resample(image_, mask_, "sitkNearestNeighbor", 0, mask_.pixel_id)

\* A plausible slip: the pixel type of the reference image.
resample_mask_image_pixel_type(mask_, image_) ==
    Resample(mask_, image_, "sitkNearestNeighbor", 0, image_.pixel_id)

\* DicomSEGWriter._resample_mask (lines 243-252).
resample_mask(mask_, image_) ==
    Resample(mask_, image_, "sitkNearestNeighbor", 0, mask_.pixel_id)

\* No call of _resample_mask is being followed.
NoResampleCall ==
    /\ mask = NoVolume
    /\ reference_image = NoVolume
    /\ resampled = <<>>

\* No multi-patient script is being followed.
NoScript ==
    /\ patients = <<>>
    /\ patient_no = 0
    /\ script_pc = "None"
    /\ script_raised = NoException
    /\ written = <<>>

(***************************************************************************)
(* FolderStructurer (patients_folder_structure/folder_structurer.py).      *)
(* A tree maps each path below the patients folder, a sequence of names,   *)
(* to what it names: a folder, a DICOM file with the three header fields   *)
(* the code reads, or a segmentation file.  origin identifies the content  *)
(* of a file, whatever its current name and place.                         *)
(***************************************************************************)
\* Largest number of DICOM files in the patients folder.
MaxDicoms == 2

AllInOne == "All In One"
PatientStudySeriesInstanceHierarchy == "Patient-Study-Series-Instance Hierarchy"
AllInOneFolder == "All In One Folder"
InEachPatientFolder == "In Each Patient Folder"

\* self._patient_images_folder_name and self._patient_segmentations_folder_name.
patient_images_folder_name == <<"i", "m", "a", "g", "e", "s">>
patient_segmentations_folder_name == <<"s", "e", "g", "s">>

\* f"IM{file_idx}", f"study{n}" and f"series{n}".
IM(n) == <<"I", "M">> \o Str(n)
StudyName(n) == <<"s", "t", "u", "d", "y">> \o Str(n)
SeriesName(n) == <<"s", "e", "r", "i", "e", "s">> \o Str(n)

DirNode == [kind |-> "dir", PatientID |-> <<>>, StudyInstanceUID |-> <<>>,
            SeriesInstanceUID |-> <<>>, origin |-> <<>>]

IsPrefix(p, q) == Len(p) <= Len(q) /\ SubSeq(q, 1, Len(p)) = p

\* The path and everything below it.
Under(tree, p) == { q \in DOMAIN tree : IsPrefix(p, q) }

\* The names os.listdir gives for a folder.
OsListdir(tree, p) ==
    { q[Len(q)] : q \in { r \in DOMAIN tree : Len(r) = Len(p) + 1 /\ IsPrefix(p, r) } }

IsDir(tree, p) == p = <<>> \/ (p \in DOMAIN tree /\ tree[p].kind = "dir")

\* What os.listdir raises on a path, if anything.
ListdirRaises(tree, p) ==
    IF IsDir(tree, p) THEN NoException
    ELSE IF p \in DOMAIN tree THEN "NotADirectoryError"
    ELSE "FileNotFoundError"

\* The outcome of a filesystem call: the exception it raised, if any, and
\* the tree it left.
Ok(tree) == [raised |-> NoException, tree |-> tree]
Raises(e, tree) == [raised |-> e, tree |-> tree]

\* shutil.rmtree on an existing folder.
Rmtree(tree, p) == [q \in DOMAIN tree \ Under(tree, p) |-> tree[q]]

\* os.mkdir, and os.makedirs where the parent exists.
OsMkdir(tree, p) ==
    IF p \in DOMAIN tree THEN Raises("FileExistsError", tree)
    ELSE Ok([q \in DOMAIN tree \cup {p} |-> IF q = p THEN DirNode ELSE tree[q]])

\* os.rmdir.
OsRmdir(tree, p) ==
    IF ListdirRaises(tree, p) # NoException THEN Raises(ListdirRaises(tree, p), tree)
    ELSE IF OsListdir(tree, p) # {} THEN Raises("OSError", tree)
    ELSE Ok(Rmtree(tree, p))

\* os.rename on POSIX: the source, with what is below it, takes the new
\* path; an existing file at the new path is replaced without notice.
OsRename(tree, src, dst) ==
    IF src = dst THEN Ok(tree)
    ELSE IF IsDir(tree, dst) /\ ~IsDir(tree, src) THEN Raises("IsADirectoryError", tree)
    ELSE IF IsDir(tree, src) /\ dst \in DOMAIN tree /\ ~IsDir(tree, dst)
    THEN Raises("NotADirectoryError", tree)
    ELSE IF IsDir(tree, dst) /\ OsListdir(tree, dst) # {} THEN Raises("OSError", tree)
    ELSE LET moved == { dst \o SubSeq(q, Len(src) + 1, Len(q)) : q \in Under(tree, src) }
             kept == DOMAIN tree \ (Under(tree, src) \cup Under(tree, dst))
         IN  Ok([q \in kept \cup moved |->
                   IF q \in moved
                   THEN tree[src \o SubSeq(q, Len(dst) + 1, Len(q))]
                   ELSE tree[q]])

\* shutil.move: into dst when dst is a folder, unless the name is taken
\* there; a folder moved onto itself stays; otherwise a rename onto dst.
ShutilMove(tree, src, dst) ==
    IF IsDir(tree, dst)
    THEN IF src = dst THEN Ok(tree)
         ELSE IF Append(dst, src[Len(src)]) \in DOMAIN tree \/ IsPrefix(src, dst)
         THEN Raises("shutil.Error", tree)
         ELSE OsRename(tree, src, Append(dst, src[Len(src)]))
    ELSE OsRename(tree, src, dst)

\* for name in names: shutil.move(src=folder/name, dst=dst), up to the first
\* call that raises.
RECURSIVE MoveAll(_, _, _, _)
MoveAll(tree, folder, names, dst) ==
    IF names = <<>> THEN Ok(tree)
    ELSE LET first == ShutilMove(tree, Append(folder, Head(names)), dst)
         IN  IF first.raised # NoException THEN first
             ELSE MoveAll(first.tree, folder, Tail(names), dst)

\* A segmentation file of the shared folder, and shutil.copy of such files
\* into a folder: a file of the same name there is replaced.
SegmentationNode(name) ==
    [kind |-> "itk", PatientID |-> <<>>, StudyInstanceUID |-> <<>>,
     SeriesInstanceUID |-> <<>>, origin |-> <<name>>]

ShutilCopyAll(tree, names, dst) ==
    LET copies == { Append(dst, n) : n \in names }
    IN  [q \in DOMAIN tree \cup copies |->
           IF q \in copies THEN SegmentationNode(q[Len(q)]) ELSE tree[q]]

\* What shutil.copy leaves in the folder it copies from.
SourceAfterCopy(folder, names) == folder

\* pydicom.dcmread on a path: what it raises, if anything.
DcmreadRaises(tree, p) ==
    IF tree[p].kind = "dir" THEN "IsADirectoryError"
    ELSE IF tree[p].kind # "dicom" THEN "InvalidDicomError"
    ELSE NoException

(***************************************************************************)
(* The patients folders considered.                                        *)
(***************************************************************************)
\* Two patient folders and the PatientID of their DICOM files.
PatientFolderNames == { <<"a">>, <<"b">> }
PatientIdOf(folder) == IF folder = <<"a">> THEN <<"P", "1">> ELSE <<"P", "1", "0">>

\* A DICOM file: its patient folder, the numbers of its study and of its
\* series, and its file name.
DicomFiles ==
    [patient : PatientFolderNames, place : { <<0, 0>>, <<0, 1>>, <<1, 1>> },
     name : { IM(0), <<"C", "T">> }]

DicomNode(d, p) ==
    [kind |-> "dicom", PatientID |-> PatientIdOf(d.patient),
     StudyInstanceUID |-> <<d.patient, d.place[1]>>,
     SeriesInstanceUID |-> <<d.patient, d.place[1], d.place[2]>>, origin |-> p]

\* Where a DICOM file is in each category.
FilePath(d, images_, segmentations_) ==
    IF images_ = PatientStudySeriesInstanceHierarchy
    THEN << d.patient, StudyName(d.place[1]), SeriesName(d.place[2]), d.name >>
    ELSE IF segmentations_ = InEachPatientFolder
    THEN << d.patient, patient_images_folder_name, d.name >>
    ELSE << d.patient, d.name >>

\* The names of the shared segmentations folder considered: one that holds
\* both patient ids, each before a non-digit, and one that holds the longer id
\* first.
SharedNames ==
    { <<"P", "1", "_", "P", "1", "0", "_">>, <<"P", "1", "0", "P", "1", "_">> }

\* The tree of a set of DICOM files; in category 1 each patient folder has
\* its segmentations folder with the given segmentation files.
Tree(dicoms, segmentations, images_, segmentations_) ==
    LET files == { FilePath(d, images_, segmentations_) : d \in dicoms }
        segs == IF segmentations_ = InEachPatientFolder /\ images_ = AllInOne
                THEN { << d.patient, patient_segmentations_folder_name, n >> :
                         d \in dicoms, n \in segmentations }
                ELSE {}
        folders == UNION { { SubSeq(p, 1, n) : n \in 1..(Len(p) - 1) } :
                             p \in files \cup segs }
                   \cup (IF segmentations_ = InEachPatientFolder /\ images_ = AllInOne
                         THEN { << d.patient, patient_segmentations_folder_name >> :
                                  d \in dicoms }
                         ELSE {})
    IN  [p \in files \cup segs \cup folders |->
           IF p \in files
           THEN DicomNode(CHOOSE d \in dicoms : FilePath(d, images_, segmentations_) = p, p)
           ELSE IF p \in segs THEN SegmentationNode(p[Len(p)])
           ELSE DirNode]

NoLoop ==
    [patient_todo |-> <<>>, current_index |-> 0, path_to_patient_folder |-> <<>>,
     study_todo |-> <<>>, study_folder_path |-> <<>>,
     series_todo |-> <<>>, series_folder_path |-> <<>>,
     dicom_todo |-> <<>>, file_idx |-> 0,
     study_dict |-> {}, series_dict |-> {}, it_study |-> 0, it_series |-> 0]

\* No folder structurer is being followed.
NoStructurer ==
    /\ images_structure_category = "None"
    /\ segmentations_structure_category = "None"
    /\ delete_segmentations = FALSE
    /\ patients_folder = <<>>
    /\ shared_segmentations = {}
    /\ structurer_pc = "None"
    /\ structurer_raised = NoException
    /\ calls = <<>>
    /\ loop = NoLoop
    /\ original = <<>>
    /\ foreign = FALSE

\* The matches property was not read.
NotRead == [raised |-> "not read", value |-> <<>>]

\* No matcher and no path generator is being followed.
NoPathsManager ==
    /\ patient_id = <<>>
    /\ paths_to_segmentation_files = <<>>
    /\ matches_returned = NotRead
    /\ paths_to_patients_dicom_folder = <<>>
    /\ verbose = FALSE
    /\ current_index = 0
    /\ sent = <<>>

\* The DICOM folders considered: up to MaxSeries series; the first series
\* belongs to patient "A", every other one to "A" or to "B".
DicomFolders ==
    UNION { { f \in [1..n -> {"A", "B"}] : n >= 1 => f[1] = "A" } : n \in 0..MaxSeries }

\* The orders in which os.listdir may return the entries of a folder.
ListDir(folder) ==
    { f \in [1..Cardinality(folder) -> folder] :
        \A a, b \in 1..Cardinality(folder) : a # b => f[a] # f[b] }

\* self.__series_ids (lines 83-89): one id per series of the DICOM folder.
SeriesIds == DOMAIN dicom_folder

\* all_patient_uids of lines 102-109.
AllPatientUids == { dicom_folder[s] : s \in SeriesIds }

\* The segmentation file of the current iteration of the for loop.
path_to_seg == paths_to_segmentations[file_no]

\* Control is at `step` and no exception has left write().
At(step) == pc = step /\ raised = NoException

\* The state at the call of write() (lines 277-283) on a segmentations folder
\* holding up to MaxFiles of the given names.
InitFrom(names) ==
    /\ resample_segmentation_to_source_image_size \in BOOLEAN
    /\ delete_itk_segmentation_files \in BOOLEAN
    /\ enable_multi_images_association \in BOOLEAN
    /\ dicom_folder \in DicomFolders
    /\ segmentations_folder \in { S \in SUBSET names : Cardinality(S) <= MaxFiles }
    /\ paths_to_segmentations = <<>>
    /\ file_no = 0
    /\ process_complete = FALSE
    /\ i = 0
    /\ source_images = NoSeries
    /\ segmentation = NoSegmentation
    /\ image = NoSeries
    /\ dcm = NoDataset
    /\ series_idx = NoReply
    /\ answer = NoReply
    /\ pc = "create_writer"
    /\ raised = NoException
    /\ printed = "nothing"
    /\ uid_count = 0
    /\ saved = <<>>
    /\ removed = <<>>
    /\ rounds = 0
    /\ yes_answers = 0
    /\ NoResampleCall
    /\ NoScript
    /\ NoPathsManager
    /\ NoStructurer

Init == InitFrom(FileNames)

(***************************************************************************)
(* DicomSEGWriter.write, statement by statement.                           *)
(***************************************************************************)
\* Lines 300-305: the metadata template is parsed and the encoder is built.
CreateWriter ==
    /\ At("create_writer")
    /\ pc' = "listdir"
    /\ UNCHANGED << args, outside_write, dicom_folder, segmentations_folder, paths_to_segmentations,
                    file_no, process_complete, i, source_images, segmentation, image,
                    dcm, series_idx, answer, raised, printed, uid_count, saved,
                    removed, rounds, yes_answers >>

\* A plausible slip: the template is parsed when the first dataset is encoded.
RaiseTemplateErrorAtEncode ==
    /\ At("encode")
    /\ raised' = "TemplateError"
    /\ UNCHANGED << args, outside_write, dicom_folder, segmentations_folder, paths_to_segmentations,
                    file_no, process_complete, i, source_images, segmentation, image,
                    dcm, series_idx, answer, pc, printed, uid_count, saved,
                    removed, rounds, yes_answers >>

\* Line 135 called from line 301: the template cannot be parsed.
RaiseTemplateError ==
    /\ At("create_writer")
    /\ raised' = "TemplateError"
    /\ UNCHANGED << args, outside_write, dicom_folder, segmentations_folder, paths_to_segmentations,
                    file_no, process_complete, i, source_images, segmentation, image,
                    dcm, series_idx, answer, pc, printed, uid_count, saved,
                    removed, rounds, yes_answers >>

\* Line 307 with lines 68-71: the folder is listed once, in any order, and
\* every entry becomes a path to a segmentation.
ListSegmentations ==
    /\ At("listdir")
    /\ paths_to_segmentations' \in ListDir(segmentations_folder)
    /\ pc' = "for"
    /\ UNCHANGED << args, outside_write, dicom_folder, segmentations_folder,
                    file_no, process_complete, i, source_images, segmentation, image,
                    dcm, series_idx, answer, raised, printed, uid_count, saved,
                    removed, rounds, yes_answers >>

\* Lines 307-310: the next path of the list, or the end of write().
ForNext ==
    /\ At("for")
    /\ IF file_no < Len(paths_to_segmentations)
       THEN /\ file_no' = file_no + 1
            /\ process_complete' = FALSE
            /\ i' = 0
            /\ rounds' = 0
            /\ yes_answers' = 0
            /\ pc' = "associate"
       ELSE /\ pc' = "done"
            /\ UNCHANGED << file_no, process_complete, i, rounds, yes_answers >>
    /\ UNCHANGED << args, outside_write, dicom_folder, segmentations_folder, paths_to_segmentations,
                    source_images, segmentation, image, dcm, series_idx, answer,
                    raised, printed, uid_count, saved, removed >>

\* A plausible slip: the test for an empty list of series is missing.
IndexSeriesWithoutSeriesCheck ==
    /\ At("associate")
    /\ rounds' = rounds + 1
    /\ series_idx' = NoReply
    /\ IF Cardinality(AllPatientUids) # 1
       THEN raised' = "AssertionError" /\ UNCHANGED << pc, printed >>
       ELSE pc' = "prompt_index" /\ printed' = "series_list" /\ UNCHANGED raised
    /\ UNCHANGED << args, outside_write, dicom_folder, segmentations_folder, paths_to_segmentations,
                    file_no, process_complete, i, source_images, segmentation, image,
                    dcm, answer, uid_count, saved, removed, yes_answers >>

\* A plausible slip: the patient identifiers are compared once the list of
\* series has been displayed.
IndexSeriesDisplayBeforePatientCheck ==
    /\ At("associate")
    /\ rounds' = rounds + 1
    /\ series_idx' = NoReply
    /\ IF SeriesIds = {}
       THEN raised' = "FileNotFoundError" /\ UNCHANGED << pc, printed >>
       ELSE IF Cardinality(AllPatientUids) # 1
       THEN raised' = "AssertionError" /\ printed' = "series_list" /\ UNCHANGED pc
       ELSE pc' = "prompt_index" /\ printed' = "series_list" /\ UNCHANGED raised
    /\ UNCHANGED << args, outside_write, dicom_folder, segmentations_folder, paths_to_segmentations,
                    file_no, process_complete, i, source_images, segmentation, image,
                    dcm, answer, uid_count, saved, removed, yes_answers >>

\* Lines 160-164 with lines 83-123: a round starts; the series are indexed,
\* the two consistency checks are made and the list is displayed.
IndexSeries ==
    /\ At("associate")
    /\ rounds' = rounds + 1
    /\ series_idx' = NoReply
    /\ IF SeriesIds = {}
       THEN raised' = "FileNotFoundError" /\ UNCHANGED << pc, printed >>
       ELSE IF Cardinality(AllPatientUids) # 1
       THEN raised' = "AssertionError" /\ UNCHANGED << pc, printed >>
       ELSE pc' = "prompt_index" /\ printed' = "series_list" /\ UNCHANGED raised
    /\ UNCHANGED << args, outside_write, dicom_folder, segmentations_folder, paths_to_segmentations,
                    file_no, process_complete, i, source_images, segmentation, image,
                    dcm, answer, uid_count, saved, removed, yes_answers >>

\* Lines 167-168: input() writes its prompt and waits for a line.
PromptIndex ==
    /\ At("prompt_index")
    /\ printed' = "index_prompt"
    /\ pc' = "await_index"
    /\ UNCHANGED << args, outside_write, dicom_folder, segmentations_folder, paths_to_segmentations,
                    file_no, process_complete, i, source_images, segmentation, image,
                    dcm, series_idx, answer, raised, uid_count, saved, removed,
                    rounds, yes_answers >>

\* Lines 167-178: the operator's reply r is read and looked up.
ReplyIndex(r) ==
    /\ At("await_index")
    /\ series_idx' = r
    /\ LET n == PyInt(r)
           item == PyGetItem(Len(dicom_folder), n.val)
       IN  IF ~n.ok
           THEN /\ printed' = "ValueError"
                /\ pc' = "prompt_index"
                /\ UNCHANGED source_images
           ELSE IF ~item.ok
           THEN /\ printed' = "IndexError"
                /\ pc' = "prompt_index"
                /\ UNCHANGED source_images
           ELSE /\ source_images' = item.pos
                /\ pc' = "load"
                /\ UNCHANGED printed
    /\ UNCHANGED << args, outside_write, dicom_folder, segmentations_folder, paths_to_segmentations,
                    file_no, process_complete, i, segmentation, image,
                    dcm, answer, raised, uid_count, saved, removed,
                    rounds, yes_answers >>

\* A plausible slip: the source file is removed as soon as it has been read.
LoadSegmentationThenRemove ==
    /\ At("load")
    /\ path_to_seg \in segmentations_folder
    /\ segmentation' = [file |-> path_to_seg, grid |-> NoSeries, from |-> NoSeries]
    /\ series_idx' = NoReply
    /\ pc' = IF resample_segmentation_to_source_image_size THEN "read_image" ELSE "encode"
    /\ segmentations_folder' =
          IF delete_itk_segmentation_files
          THEN segmentations_folder \ {path_to_seg} ELSE segmentations_folder
    /\ UNCHANGED << args, outside_write, dicom_folder, paths_to_segmentations,
                    file_no, process_complete, i, source_images, image,
                    dcm, answer, raised, printed, uid_count, saved, removed,
                    rounds, yes_answers >>

\* A plausible slip: the resampling flag is not consulted.
LoadSegmentationAlwaysResample ==
    /\ At("load")
    /\ path_to_seg \in segmentations_folder
    /\ segmentation' = [file |-> path_to_seg, grid |-> NoSeries, from |-> NoSeries]
    /\ series_idx' = NoReply
    /\ pc' = "read_image"
    /\ UNCHANGED << args, outside_write, dicom_folder, segmentations_folder, paths_to_segmentations,
                    file_no, process_complete, i, source_images, image,
                    dcm, answer, raised, printed, uid_count, saved, removed,
                    rounds, yes_answers >>

\* A plausible slip: the label map is read once per file, before the while
\* loop, and a further round works on the volume the last one left.
LoadSegmentationOncePerFile ==
    /\ At("load")
    /\ path_to_seg \in segmentations_folder
    /\ segmentation' = IF rounds = 1
                       THEN [file |-> path_to_seg, grid |-> NoSeries, from |-> NoSeries]
                       ELSE segmentation
    /\ series_idx' = NoReply
    /\ pc' = IF resample_segmentation_to_source_image_size THEN "read_image" ELSE "encode"
    /\ UNCHANGED << args, outside_write, dicom_folder, segmentations_folder, paths_to_segmentations,
                    file_no, process_complete, i, source_images, image,
                    dcm, answer, raised, printed, uid_count, saved, removed,
                    rounds, yes_answers >>

\* Line 312: the label map is read from the source file.
LoadSegmentation ==
    /\ At("load")
    /\ path_to_seg \in segmentations_folder
    /\ segmentation' = [file |-> path_to_seg, grid |-> NoSeries, from |-> NoSeries]
    /\ series_idx' = NoReply
    /\ pc' = IF resample_segmentation_to_source_image_size THEN "read_image" ELSE "encode"
    /\ UNCHANGED << args, outside_write, dicom_folder, segmentations_folder, paths_to_segmentations,
                    file_no, process_complete, i, source_images, image,
                    dcm, answer, raised, printed, uid_count, saved, removed,
                    rounds, yes_answers >>

\* Line 315: the chosen series is read as a 3D image.
ReadImage ==
    /\ At("read_image")
    /\ image' = source_images
    /\ pc' = "resample"
    /\ UNCHANGED << args, outside_write, dicom_folder, segmentations_folder, paths_to_segmentations,
                    file_no, process_complete, i, source_images, segmentation,
                    dcm, series_idx, answer, raised, printed, uid_count, saved,
                    removed, rounds, yes_answers >>

\* Line 316: the label map is resampled onto the grid of the image.
ResampleMask ==
    /\ At("resample")
    /\ segmentation' = [file |-> segmentation.file, grid |-> image,
                        from |-> segmentation.grid]
    /\ pc' = "encode"
    /\ UNCHANGED << args, outside_write, dicom_folder, segmentations_folder, paths_to_segmentations,
                    file_no, process_complete, i, source_images, image,
                    dcm, series_idx, answer, raised, printed, uid_count, saved,
                    removed, rounds, yes_answers >>

\* Line 318: the encoding library builds the dataset, with its own identifiers.
Encode ==
    /\ At("encode")
    /\ dcm' = [segmentation |-> segmentation, source_images |-> source_images,
               SOPInstanceUID |-> LibraryUid, SeriesInstanceUID |-> LibraryUid]
    /\ pc' = "assign_uids"
    /\ UNCHANGED << args, outside_write, dicom_folder, segmentations_folder, paths_to_segmentations,
                    file_no, process_complete, i, source_images, segmentation, image,
                    series_idx, answer, raised, printed, uid_count, saved,
                    removed, rounds, yes_answers >>

\* A plausible slip: the two identifiers are generated once per segmentation
\* file, before the while loop, and used again in every round.
AssignUidsOncePerFile ==
    /\ At("assign_uids")
    /\ dcm' = [dcm EXCEPT !.SOPInstanceUID = generate_uid(2 * file_no - 1),
                          !.SeriesInstanceUID = generate_uid(2 * file_no)]
    /\ uid_count' = 2 * file_no
    /\ pc' = "save"
    /\ UNCHANGED << args, outside_write, dicom_folder, segmentations_folder, paths_to_segmentations,
                    file_no, process_complete, i, source_images, segmentation, image,
                    series_idx, answer, raised, printed, saved,
                    removed, rounds, yes_answers >>

\* A plausible slip: only the SOPInstanceUID is replaced.
AssignSopInstanceUidOnly ==
    /\ At("assign_uids")
    /\ dcm' = [dcm EXCEPT !.SOPInstanceUID = generate_uid(uid_count + 1)]
    /\ uid_count' = uid_count + 1
    /\ pc' = "save"
    /\ UNCHANGED << args, outside_write, dicom_folder, segmentations_folder, paths_to_segmentations,
                    file_no, process_complete, i, source_images, segmentation, image,
                    series_idx, answer, raised, printed, saved,
                    removed, rounds, yes_answers >>

\* Lines 320-321: two calls of generate_uid, one per identifier.
AssignUids ==
    /\ At("assign_uids")
    /\ dcm' = [dcm EXCEPT !.SOPInstanceUID = generate_uid(uid_count + 1),
                          !.SeriesInstanceUID = generate_uid(uid_count + 2)]
    /\ uid_count' = uid_count + 2
    /\ pc' = "save"
    /\ UNCHANGED << args, outside_write, dicom_folder, segmentations_folder, paths_to_segmentations,
                    file_no, process_complete, i, source_images, segmentation, image,
                    series_idx, answer, raised, printed, saved,
                    removed, rounds, yes_answers >>

\* A plausible slip: the continuation question is asked whatever the flag.
SaveAsThenAlwaysAsk ==
    /\ At("save")
    /\ LET new_path == NewPath(path_to_seg, i)
       IN  /\ segmentations_folder' = segmentations_folder \cup {new_path}
           /\ saved' = Append(saved, [src |-> path_to_seg, round |-> rounds - 1,
                                      path |-> new_path,
                                      SOPInstanceUID |-> dcm.SOPInstanceUID,
                                      SeriesInstanceUID |-> dcm.SeriesInstanceUID])
    /\ printed' = "saved"
    /\ pc' = "prompt_more"
    /\ answer' = NoReply
    /\ UNCHANGED << args, outside_write, dicom_folder, paths_to_segmentations,
                    file_no, process_complete, i, source_images, segmentation, image,
                    dcm, series_idx, raised, uid_count,
                    removed, rounds, yes_answers >>

\* Lines 323-333: the dataset is saved at new_path and the save is reported;
\* without multi-images association the file is complete.
SaveAs ==
    /\ At("save")
    /\ LET new_path == NewPath(path_to_seg, i)
       IN  /\ segmentations_folder' = segmentations_folder \cup {new_path}
           /\ saved' = Append(saved, [src |-> path_to_seg, round |-> rounds - 1,
                                      path |-> new_path,
                                      SOPInstanceUID |-> dcm.SOPInstanceUID,
                                      SeriesInstanceUID |-> dcm.SeriesInstanceUID])
    /\ printed' = "saved"
    /\ IF enable_multi_images_association
       THEN pc' = "prompt_more" /\ UNCHANGED process_complete
       ELSE pc' = "cleanup" /\ process_complete' = TRUE
    /\ answer' = NoReply
    /\ UNCHANGED << args, outside_write, dicom_folder, paths_to_segmentations,
                    file_no, i, source_images, segmentation, image,
                    dcm, series_idx, raised, uid_count,
                    removed, rounds, yes_answers >>

\* Lines 265-267: input() writes the continuation question and waits.
PromptMore ==
    /\ At("prompt_more")
    /\ printed' = "more_prompt"
    /\ pc' = "await_more"
    /\ UNCHANGED << args, outside_write, dicom_folder, segmentations_folder, paths_to_segmentations,
                    file_no, process_complete, i, source_images, segmentation, image,
                    dcm, series_idx, answer, raised, uid_count, saved, removed,
                    rounds, yes_answers >>

\* A plausible slip: the helper that asks the question removes the source
\* file itself when the answer ends the association.
ReplyMoreThenRemove(a) ==
    /\ At("await_more")
    /\ (AnswerAccepted(a) /\ ~ProcessComplete(a)) => rounds < MaxRounds
    /\ answer' = a
    /\ IF AnswerAccepted(a)
       THEN /\ process_complete' = ProcessComplete(a)
            /\ i' = i + 1
            /\ yes_answers' = IF a = <<"y">> THEN yes_answers + 1 ELSE yes_answers
            /\ pc' = "cleanup"
            /\ segmentations_folder' =
                  IF ProcessComplete(a) THEN segmentations_folder \ {path_to_seg}
                  ELSE segmentations_folder
            /\ UNCHANGED printed
       ELSE /\ printed' = "try_again"
            /\ pc' = "prompt_more"
            /\ UNCHANGED << process_complete, i, yes_answers, segmentations_folder >>
    /\ UNCHANGED << args, outside_write, dicom_folder, paths_to_segmentations,
                    file_no, source_images, segmentation, image,
                    dcm, series_idx, raised, uid_count, saved, removed, rounds >>

\* Lines 265-275 and 330-331: the operator's answer a is read; an accepted
\* answer ends the helper and the association index is incremented.
ReplyMore(a) ==
    /\ At("await_more")
    /\ (AnswerAccepted(a) /\ ~ProcessComplete(a)) => rounds < MaxRounds
    /\ answer' = a
    /\ IF AnswerAccepted(a)
       THEN /\ process_complete' = ProcessComplete(a)
            /\ i' = i + 1
            /\ yes_answers' = IF a = <<"y">> THEN yes_answers + 1 ELSE yes_answers
            /\ pc' = "cleanup"
            /\ UNCHANGED printed
       ELSE /\ printed' = "try_again"
            /\ pc' = "prompt_more"
            /\ UNCHANGED << process_complete, i, yes_answers >>
    /\ UNCHANGED << args, outside_write, dicom_folder, segmentations_folder, paths_to_segmentations,
                    file_no, source_images, segmentation, image,
                    dcm, series_idx, raised, uid_count, saved, removed, rounds >>

\* A plausible slip: the source file is removed after every round.
ShouldRemoveEveryRound == delete_itk_segmentation_files

\* The test of line 335.
ShouldRemove == delete_itk_segmentation_files /\ process_complete

\* A plausible slip: the series is chosen once, before the while loop, and a
\* further round starts at the reading of the label map.
CleanupThenReuseAssociation ==
    /\ At("cleanup")
    /\ IF ShouldRemove
       THEN IF path_to_seg \in segmentations_folder
            THEN /\ segmentations_folder' = segmentations_folder \ {path_to_seg}
                 /\ removed' = Append(removed, path_to_seg)
                 /\ pc' = IF process_complete THEN "for" ELSE "load"
                 /\ UNCHANGED raised
            ELSE /\ raised' = "FileNotFoundError"
                 /\ UNCHANGED << segmentations_folder, removed, pc >>
       ELSE /\ pc' = IF process_complete THEN "for" ELSE "load"
            /\ UNCHANGED << segmentations_folder, removed, raised >>
    /\ UNCHANGED << args, outside_write, dicom_folder, paths_to_segmentations,
                    file_no, process_complete, i, source_images, segmentation, image,
                    dcm, series_idx, answer, printed, uid_count, saved,
                    rounds, yes_answers >>

\* A plausible slip: the while loop is left after every round, and the for
\* loop goes on to the next file whatever the operator answered.
CleanupThenNextFile ==
    /\ At("cleanup")
    /\ IF ShouldRemove
       THEN IF path_to_seg \in segmentations_folder
            THEN /\ segmentations_folder' = segmentations_folder \ {path_to_seg}
                 /\ removed' = Append(removed, path_to_seg)
                 /\ pc' = "for"
                 /\ UNCHANGED raised
            ELSE /\ raised' = "FileNotFoundError"
                 /\ UNCHANGED << segmentations_folder, removed, pc >>
       ELSE /\ pc' = "for"
            /\ UNCHANGED << segmentations_folder, removed, raised >>
    /\ UNCHANGED << args, outside_write, dicom_folder, paths_to_segmentations,
                    file_no, process_complete, i, source_images, segmentation, image,
                    dcm, series_idx, answer, printed, uid_count, saved,
                    rounds, yes_answers >>

\* Lines 335-336 and the test of line 310: the source file is removed when
\* asked for and complete; the while loop goes on or ends.
Cleanup ==
    /\ At("cleanup")
    /\ IF ShouldRemove
       THEN IF path_to_seg \in segmentations_folder
            THEN /\ segmentations_folder' = segmentations_folder \ {path_to_seg}
                 /\ removed' = Append(removed, path_to_seg)
                 /\ pc' = IF process_complete THEN "for" ELSE "associate"
                 /\ UNCHANGED raised
            ELSE /\ raised' = "FileNotFoundError"
                 /\ UNCHANGED << segmentations_folder, removed, pc >>
       ELSE /\ pc' = IF process_complete THEN "for" ELSE "associate"
            /\ UNCHANGED << segmentations_folder, removed, raised >>
    /\ UNCHANGED << args, outside_write, dicom_folder, paths_to_segmentations,
                    file_no, process_complete, i, source_images, segmentation, image,
                    dcm, series_idx, answer, printed, uid_count, saved,
                    rounds, yes_answers >>

\* The steps whose library call may raise: the file read of line 312, the
\* series read of line 315, the resampling of line 316, the encoding of line 318.
LibrarySteps == {"load", "read_image", "resample", "encode"}

\* A plausible slip: cleanup done in a `finally`, also when the round failed.
RaiseInLibraryCallThenCleanup ==
    /\ pc \in LibrarySteps
    /\ raised = NoException
    /\ raised' = "RuntimeError"
    /\ segmentations_folder' =
          IF delete_itk_segmentation_files
          THEN segmentations_folder \ {path_to_seg} ELSE segmentations_folder
    /\ UNCHANGED << args, outside_write, dicom_folder, paths_to_segmentations,
                    file_no, process_complete, i, source_images, segmentation, image,
                    dcm, series_idx, answer, pc, printed, uid_count, saved, removed,
                    rounds, yes_answers >>

\* Lines 312-318: a library call raises; nothing in write() catches it.
RaiseInLibraryCall ==
    /\ pc \in LibrarySteps
    /\ raised = NoException
    /\ raised' = "RuntimeError"
    /\ UNCHANGED << args, outside_write, dicom_folder, segmentations_folder, paths_to_segmentations,
                    file_no, process_complete, i, source_images, segmentation, image,
                    dcm, series_idx, answer, pc, printed, uid_count, saved, removed,
                    rounds, yes_answers >>

\* Line 325: save_as raises; the output file may have been created, and
\* partly written, or not.
RaiseInSaveAs ==
    /\ At("save")
    /\ raised' = "OSError"
    /\ segmentations_folder' \in
          {segmentations_folder, segmentations_folder \cup {NewPath(path_to_seg, i)}}
    /\ UNCHANGED << args, outside_write, dicom_folder, paths_to_segmentations,
                    file_no, process_complete, i, source_images, segmentation, image,
                    dcm, series_idx, answer, pc, printed, uid_count, saved, removed,
                    rounds, yes_answers >>

Next ==
    \/ CreateWriter
    \/ RaiseTemplateError
    \/ ListSegmentations
    \/ ForNext
    \/ IndexSeries
    \/ PromptIndex
    \/ \E r \in IndexReplies : ReplyIndex(r)
    \/ LoadSegmentation
    \/ ReadImage
    \/ ResampleMask
    \/ Encode
    \/ AssignUids
    \/ SaveAs
    \/ PromptMore
    \/ \E a \in AnswerReplies : ReplyMore(a)
    \/ Cleanup
    \/ RaiseInLibraryCall
    \/ RaiseInSaveAs

Spec == Init /\ [][Next]_vars

\* The statements of write() that wait for nobody: once reached, each is
\* executed.
ProgramStep ==
    \/ CreateWriter
    \/ ListSegmentations
    \/ ForNext
    \/ IndexSeries
    \/ PromptIndex
    \/ LoadSegmentation
    \/ ReadImage
    \/ ResampleMask
    \/ Encode
    \/ AssignUids
    \/ SaveAs
    \/ PromptMore
    \/ Cleanup

\* The operator's reply at line 167 is an index that line 169 accepts.
OperatorEntersValidIndex ==
    \E r \in IndexReplies : ReplyIndex(r) /\ pc' = "load"

\* The operator's answer at line 265 is 'n'.
OperatorAnswersNo == ReplyMore(<<"n">>)

\* A call of write() that resamples and removes: every statement of the loop
\* body is on its path.
InitFair ==
    /\ Init
    /\ resample_segmentation_to_source_image_size
    /\ delete_itk_segmentation_files

\* write() with an operator who, asked again and again, eventually enters a
\* valid index and eventually answers 'n'.
SpecFair ==
    /\ InitFair
    /\ [][Next]_vars
    /\ WF_vars(ProgramStep)
    /\ SF_vars(OperatorEntersValidIndex)
    /\ SF_vars(OperatorAnswersNo)

\* A second call of write() on the folder the first one left, the source
\* files not having been removed: the segmentation Q and the output Q_0.SEG.dcm
\* of the first call (lines 323-325).
LeftoverNames == { Q_NOEXT, NewPath(Q_NOEXT, 0) }

InitLeftover == InitFrom(LeftoverNames)

SpecLeftover == InitLeftover /\ [][Next]_vars

(***************************************************************************)
(* DicomSEGWriter._resample_mask, called on its own.                       *)
(***************************************************************************)
\* No call of write() is being followed.
NoWrite ==
    /\ resample_segmentation_to_source_image_size = FALSE
    /\ delete_itk_segmentation_files = FALSE
    /\ enable_multi_images_association = FALSE
    /\ dicom_folder = <<>>
    /\ segmentations_folder = {}
    /\ paths_to_segmentations = <<>>
    /\ file_no = 0
    /\ process_complete = FALSE
    /\ i = 0
    /\ source_images = NoSeries
    /\ segmentation = NoSegmentation
    /\ image = NoSeries
    /\ dcm = NoDataset
    /\ series_idx = NoReply
    /\ answer = NoReply
    /\ pc = "None"
    /\ raised = NoException
    /\ printed = "nothing"
    /\ uid_count = 0
    /\ saved = <<>>
    /\ removed = <<>>
    /\ rounds = 0
    /\ yes_answers = 0

write_vars == << args, dicom_folder, segmentations_folder, paths_to_segmentations,
                 file_no, process_complete, i, source_images, segmentation, image,
                 dcm, series_idx, answer, pc, raised, printed, uid_count, saved,
                 removed, rounds, yes_answers >>

InitResample ==
    /\ mask \in Masks
    /\ reference_image \in ReferenceImages
    /\ resampled = <<>>
    /\ NoWrite
    /\ NoScript
    /\ NoPathsManager
    /\ NoStructurer

\* Lines 243-252: the segmentation, or the volume the previous call returned,
\* is resampled onto the grid of the reference image.
CallResampleMask ==
    /\ Len(resampled) < MaxCalls
    /\ resampled' = Append(resampled,
                          resample_mask(IF resampled = <<>> THEN mask
                                        ELSE resampled[Len(resampled)],
                                        reference_image))
    /\ UNCHANGED << mask, reference_image, write_vars, script_vars, paths_manager_vars,
                    structurer_vars >>

NextResample == CallResampleMask

SpecResample == InitResample /\ [][NextResample]_vars

(***************************************************************************)
(* The multi-patient script, examples/create_dicom_seg_files.py.           *)
(***************************************************************************)
\* A patient folder: the number of series of its image directory and the
\* number of entries of its segmentations directory.
PatientFolders == [series : 0..MaxSeries, segmentations : 0..MaxFiles]

\* How write() ends for a patient folder whose operator answers every prompt
\* and whose library calls succeed: the series are indexed in the first round
\* of the first segmentation (dicom_seg_writer.py, lines 307-311 and 86-87).
WriteOutcome(patient_folder) ==
    IF patient_folder.segmentations > 0 /\ patient_folder.series = 0
    THEN "FileNotFoundError"
    ELSE NoException

InitScript ==
    /\ patients \in UNION { [1..n -> PatientFolders] : n \in 0..MaxPatients }
    /\ patient_no = 0
    /\ script_pc = "for"
    /\ script_raised = NoException
    /\ written = <<>>
    /\ NoWrite
    /\ NoResampleCall
    /\ NoPathsManager
    /\ NoStructurer

\* Line 19: the next entry of the listing, or the end of the script.
ScriptForNext ==
    /\ script_pc = "for"
    /\ IF patient_no < Len(patients)
       THEN patient_no' = patient_no + 1 /\ script_pc' = "write"
       ELSE script_pc' = "end" /\ UNCHANGED patient_no
    /\ UNCHANGED << patients, script_raised, written, write_vars, resample_vars,
                    paths_manager_vars, structurer_vars >>

\* Lines 20-29: the writer is built and write() is called; nothing in the
\* script catches what write() raises.
ScriptWrite ==
    /\ script_pc = "write"
    /\ LET outcome == WriteOutcome(patients[patient_no])
       IN  IF outcome = NoException
           THEN /\ written' = Append(written, patient_no)
                /\ script_pc' = "for"
                /\ UNCHANGED script_raised
           ELSE /\ script_raised' = outcome
                /\ script_pc' = "raised"
                /\ UNCHANGED written
    /\ UNCHANGED << patients, patient_no, write_vars, resample_vars, paths_manager_vars,
                    structurer_vars >>

NextScript ==
    \/ ScriptForNext
    \/ ScriptWrite

SpecScript == InitScript /\ [][NextScript]_vars

(***************************************************************************)
(* SegmentationFilenamePatternsMatcher.matches                             *)
(* (paths_manager/segmentation_filename_patterns_matcher.py).              *)
(***************************************************************************)
\* The patient ids and the names of the segmentations folder considered:
\* the id at the end of a name, before a non-digit, before a digit, twice,
\* and absent.
PatientIds == { <<"P", "1">>, <<"P", "1", "0">> }

SegmentationNames ==
    { <<"P", "1">>, <<"P", "1", "_">>, <<"P", "1", "0">>, <<"P", "1", "0", "_">>,
      <<"P", "1", "0", "P", "1", "_">>, <<"C", "T">> }

\* str.find (line 102): the 0-based start of the first occurrence of the
\* pattern in the name, -1 when there is none.
Find(name, pattern) ==
    LET starts == { p \in 0..Len(name) :
                      /\ p + Len(pattern) <= Len(name)
                      /\ SubSeq(name, p + 1, p + Len(pattern)) = pattern }
    IN  IF starts = {} THEN -1
        ELSE CHOOSE p \in starts : \A q \in starts : p <= q

\* Lines 100-106 for one file name: the character after the first occurrence
\* is read by indexing the name, which raises when the occurrence ends it.
FileMatch(name, pattern) ==
    IF Find(name, pattern) = -1
    THEN [raised |-> NoException, value |-> FALSE]
    ELSE LET idx_following_pattern == Find(name, pattern) + Len(pattern)
         IN  IF idx_following_pattern >= Len(name)
             THEN [raised |-> "IndexError", value |-> FALSE]
             ELSE [raised |-> NoException,
                   value |-> ~IsDigit(name[idx_following_pattern + 1])]

\* The matches property (lines 83-108): one boolean per file of the listing,
\* unless the loop raised.
matches(files, pattern) ==
    IF \E k \in DOMAIN files : FileMatch(files[k], pattern).raised # NoException
    THEN [raised |-> "IndexError", value |-> <<>>]
    ELSE [raised |-> NoException,
          value |-> [k \in DOMAIN files |-> FileMatch(files[k], pattern).value]]

InitMatcher ==
    /\ patient_id \in PatientIds
    /\ paths_to_segmentation_files \in
          UNION { ListDir(S) : S \in { T \in SUBSET SegmentationNames :
                                         Cardinality(T) <= MaxFiles } }
    /\ matches_returned = NotRead
    /\ paths_to_patients_dicom_folder = <<>>
    /\ verbose = FALSE
    /\ current_index = 0
    /\ sent = <<>>
    /\ NoWrite
    /\ NoResampleCall
    /\ NoScript
    /\ NoStructurer

\* The matches property is read.
ReadMatches ==
    /\ matches_returned = NotRead
    /\ matches_returned' = matches(paths_to_segmentation_files, patient_id)
    /\ UNCHANGED << patient_id, paths_to_segmentation_files, generator_vars,
                    write_vars, resample_vars, script_vars, structurer_vars >>

NextMatcher == ReadMatches

SpecMatcher == InitMatcher /\ [][NextMatcher]_vars

(***************************************************************************)
(* PathGenerator (paths_manager/path_generator.py).                        *)
(***************************************************************************)
\* The entries of a patients folder: a patient folder and whether it is
\* empty.
PatientFolderEntries == [folder : {"patient1", "patient2"}, empty : BOOLEAN]

\* Path.__init__ on a patient folder (path.py, lines 77-78): the first entry
\* of the folder is read as a DICOM file.
PathOutcome(entry) == IF entry.empty THEN "IndexError" ELSE NoException

InitGenerator ==
    /\ paths_to_patients_dicom_folder \in
          { l \in UNION { [1..n -> PatientFolderEntries] : n \in 0..MaxPatients } :
              \A a, b \in DOMAIN l : a # b => l[a].folder # l[b].folder }
    /\ verbose \in BOOLEAN
    /\ current_index = 0
    /\ sent = <<>>
    /\ patient_id = <<>>
    /\ paths_to_segmentation_files = <<>>
    /\ matches_returned = NotRead
    /\ NoWrite
    /\ NoResampleCall
    /\ NoScript
    /\ NoStructurer

\* PathGenerator.send (lines 64-93), as __next__ calls it: the test for the
\* end of the listing is the elif of the test current_index == 0.
send ==
    /\ Len(sent) <= MaxPatients + 1
    /\ IF current_index # 0 /\ current_index = Len(paths_to_patients_dicom_folder)
       THEN /\ sent' = Append(sent, [raised |-> "StopIteration", path |-> "None"])
            /\ UNCHANGED current_index
       ELSE IF current_index + 1 \notin DOMAIN paths_to_patients_dicom_folder
       THEN /\ sent' = Append(sent, [raised |-> "IndexError", path |-> "None"])
            /\ UNCHANGED current_index
       ELSE LET entry == paths_to_patients_dicom_folder[current_index + 1]
            IN  IF PathOutcome(entry) # NoException
                THEN /\ sent' = Append(sent, [raised |-> PathOutcome(entry),
                                              path |-> "None"])
                     /\ UNCHANGED current_index
                ELSE /\ sent' = Append(sent, [raised |-> NoException,
                                              path |-> entry.folder])
                     /\ current_index' = current_index + 1
    /\ UNCHANGED << paths_to_patients_dicom_folder, verbose, matcher_vars,
                    write_vars, resample_vars, script_vars, structurer_vars >>

NextGenerator == send

SpecGenerator == InitGenerator /\ [][NextGenerator]_vars

InitStructurer ==
    /\ images_structure_category \in { AllInOne, PatientStudySeriesInstanceHierarchy }
    /\ segmentations_structure_category \in { AllInOneFolder, InEachPatientFolder }
    /\ delete_segmentations = FALSE
    /\ shared_segmentations \in { S \in SUBSET SharedNames : Cardinality(S) <= MaxFiles }
    /\ \E dicoms \in { D \in SUBSET DicomFiles : Cardinality(D) <= MaxDicoms } :
          /\ \A d, e \in dicoms :
                FilePath(d, images_structure_category, segmentations_structure_category)
                  = FilePath(e, images_structure_category, segmentations_structure_category)
                => d = e
          /\ patients_folder = Tree(dicoms, shared_segmentations, images_structure_category,
                                    segmentations_structure_category)
    /\ structurer_pc = "idle"
    /\ structurer_raised = NoException
    /\ calls = <<>>
    /\ loop = NoLoop
    /\ original = [patients_folder |-> patients_folder,
                   shared_segmentations |-> shared_segmentations]
    /\ foreign = FALSE
    /\ NoWrite
    /\ NoResampleCall
    /\ NoScript
    /\ NoPathsManager

(***************************************************************************)
(* FolderStructurer.structure and FolderStructurer.destructure, loop       *)
(* iteration by loop iteration.                                            *)
(***************************************************************************)
\* The statement reached is `position`, the tree and the locals are as given.
Continue(position, tree, locals) ==
    /\ structurer_pc' = position
    /\ patients_folder' = tree
    /\ loop' = locals
    /\ UNCHANGED structurer_raised

\* An exception leaves the method.
Fail(exception, tree) ==
    /\ structurer_pc' = "raised"
    /\ structurer_raised' = exception
    /\ patients_folder' = tree
    /\ UNCHANGED loop

\* The method returns.
Return(tree) ==
    /\ structurer_pc' = "idle"
    /\ patients_folder' = tree
    /\ UNCHANGED << loop, structurer_raised >>

structurer_fixed == << images_structure_category, segmentations_structure_category,
                       calls, original, foreign >>

outside_structurer == << write_vars, resample_vars, script_vars, paths_manager_vars >>

\* A plausible slip: the unimplemented combination handled like category 3.
structure_without_not_implemented ==
    /\ structurer_pc = "idle"
    /\ calls = <<>>
    /\ calls' = << "structure" >>
    /\ IF /\ segmentations_structure_category = InEachPatientFolder
          /\ images_structure_category = AllInOne
       THEN Return(patients_folder)
       ELSE IF images_structure_category = AllInOne
       THEN \E listing \in ListDir(OsListdir(patients_folder, <<>>)) :
               Continue("_structure_segmentations", patients_folder,
                        [loop EXCEPT !.patient_todo = listing, !.current_index = 0])
       ELSE \E listing \in ListDir(OsListdir(patients_folder, <<>>)) :
               Continue("_destructure_images", patients_folder,
                        [loop EXCEPT !.patient_todo = listing])
    /\ UNCHANGED << delete_segmentations, shared_segmentations,
                    images_structure_category, segmentations_structure_category,
                    original, foreign, outside_structurer >>

\* A plausible slip: the test of line 177 is missing, and the layout that is
\* already the required one is structured like the shared-folder layout.
structure_without_category_test ==
    /\ structurer_pc = "idle"
    /\ calls = <<>>
    /\ calls' = << "structure" >>
    /\ IF /\ segmentations_structure_category = InEachPatientFolder
          /\ images_structure_category = PatientStudySeriesInstanceHierarchy
       THEN Fail("NotImplementedError", patients_folder)
       ELSE IF images_structure_category = AllInOne
       THEN \E listing \in ListDir(OsListdir(patients_folder, <<>>)) :
               Continue("_structure_segmentations", patients_folder,
                        [loop EXCEPT !.patient_todo = listing, !.current_index = 0])
       ELSE \E listing \in ListDir(OsListdir(patients_folder, <<>>)) :
               Continue("_destructure_images", patients_folder,
                        [loop EXCEPT !.patient_todo = listing])
    /\ UNCHANGED << delete_segmentations, shared_segmentations,
                    images_structure_category, segmentations_structure_category,
                    original, foreign, outside_structurer >>

\* structure (lines 164-190): the category test; category 1 returns, the
\* unimplemented combination raises, category 3 enters _destructure_images
\* (line 335 lists the patients folder), category 2 builds the PathGenerator
\* (path_generator.py, line 44 lists the patients folder).
structure ==
    /\ structurer_pc = "idle"
    /\ calls = <<>>
    /\ calls' = << "structure" >>
    /\ IF segmentations_structure_category = InEachPatientFolder
       THEN IF images_structure_category = AllInOne
            THEN Return(patients_folder)
            ELSE Fail("NotImplementedError", patients_folder)
       ELSE IF images_structure_category = AllInOne
       THEN \E listing \in ListDir(OsListdir(patients_folder, <<>>)) :
               Continue("_structure_segmentations", patients_folder,
                        [loop EXCEPT !.patient_todo = listing, !.current_index = 0])
       ELSE \E listing \in ListDir(OsListdir(patients_folder, <<>>)) :
               Continue("_destructure_images", patients_folder,
                        [loop EXCEPT !.patient_todo = listing])
    /\ UNCHANGED << delete_segmentations, shared_segmentations,
                    images_structure_category, segmentations_structure_category,
                    original, foreign, outside_structurer >>

\* _destructure_images, lines 335-338: the next patient folder is listed;
\* after the last one structure builds the PathGenerator (lines 187-190).
destructure_images_patient ==
    /\ structurer_pc = "_destructure_images"
    /\ IF loop.patient_todo = <<>>
       THEN \E listing \in ListDir(OsListdir(patients_folder, <<>>)) :
               Continue("_structure_segmentations", patients_folder,
                        [loop EXCEPT !.patient_todo = listing, !.current_index = 0])
       ELSE LET patient == << Head(loop.patient_todo) >>
            IN  IF ListdirRaises(patients_folder, patient) # NoException
                THEN Fail(ListdirRaises(patients_folder, patient), patients_folder)
                ELSE \E listing \in ListDir(OsListdir(patients_folder, patient)) :
                        Continue("for study_folder", patients_folder,
                                 [loop EXCEPT !.patient_todo = Tail(loop.patient_todo),
                                              !.path_to_patient_folder = patient,
                                              !.file_idx = 0,
                                              !.study_todo = listing])
    /\ UNCHANGED << delete_segmentations, shared_segmentations, structurer_fixed,
                    outside_structurer >>

\* Lines 338-340: the next study folder is listed; after the last one the
\* loop over the patients goes on.
destructure_images_study ==
    /\ structurer_pc = "for study_folder"
    /\ IF loop.study_todo = <<>>
       THEN Continue("_destructure_images", patients_folder, loop)
       ELSE LET study == Append(loop.path_to_patient_folder, Head(loop.study_todo))
            IN  IF ListdirRaises(patients_folder, study) # NoException
                THEN Fail(ListdirRaises(patients_folder, study), patients_folder)
                ELSE \E listing \in ListDir(OsListdir(patients_folder, study)) :
                        Continue("for series_folder", patients_folder,
                                 [loop EXCEPT !.study_todo = Tail(loop.study_todo),
                                              !.study_folder_path = study,
                                              !.series_todo = listing])
    /\ UNCHANGED << delete_segmentations, shared_segmentations, structurer_fixed,
                    outside_structurer >>

\* A plausible slip: the study folder removed without the test of line 354.
destructure_images_series_without_test ==
    /\ structurer_pc = "for series_folder"
    /\ IF loop.series_todo = <<>>
       THEN Continue("for study_folder",
                     Rmtree(patients_folder, loop.study_folder_path), loop)
       ELSE LET series == Append(loop.study_folder_path, Head(loop.series_todo))
            IN  IF ListdirRaises(patients_folder, series) # NoException
                THEN Fail(ListdirRaises(patients_folder, series), patients_folder)
                ELSE \E listing \in ListDir(OsListdir(patients_folder, series)) :
                        Continue("for dicoms", patients_folder,
                                 [loop EXCEPT !.series_todo = Tail(loop.series_todo),
                                              !.series_folder_path = series,
                                              !.dicom_todo = listing])
    /\ UNCHANGED << delete_segmentations, shared_segmentations, structurer_fixed,
                    outside_structurer >>

\* A plausible slip: file_idx = 0 is written inside the loop over the series
\* folders, so the numbering starts again in every series.
destructure_images_series_restarting_file_idx ==
    /\ structurer_pc = "for series_folder"
    /\ IF loop.series_todo = <<>>
       THEN IF OsListdir(patients_folder, loop.study_folder_path) # {}
            THEN Fail("ValueError", patients_folder)
            ELSE Continue("for study_folder",
                          Rmtree(patients_folder, loop.study_folder_path), loop)
       ELSE LET series == Append(loop.study_folder_path, Head(loop.series_todo))
            IN  IF ListdirRaises(patients_folder, series) # NoException
                THEN Fail(ListdirRaises(patients_folder, series), patients_folder)
                ELSE \E listing \in ListDir(OsListdir(patients_folder, series)) :
                        Continue("for dicoms", patients_folder,
                                 [loop EXCEPT !.series_todo = Tail(loop.series_todo),
                                              !.series_folder_path = series,
                                              !.file_idx = 0,
                                              !.dicom_todo = listing])
    /\ UNCHANGED << delete_segmentations, shared_segmentations, structurer_fixed,
                    outside_structurer >>

\* Lines 340-342 and 354-356: the next series folder is listed; after the
\* last one the study folder is removed if it is empty, and ValueError is
\* raised if it is not.
destructure_images_series ==
    /\ structurer_pc = "for series_folder"
    /\ IF loop.series_todo = <<>>
       THEN IF OsListdir(patients_folder, loop.study_folder_path) # {}
            THEN Fail("ValueError", patients_folder)
            ELSE Continue("for study_folder",
                          Rmtree(patients_folder, loop.study_folder_path), loop)
       ELSE LET series == Append(loop.study_folder_path, Head(loop.series_todo))
            IN  IF ListdirRaises(patients_folder, series) # NoException
                THEN Fail(ListdirRaises(patients_folder, series), patients_folder)
                ELSE \E listing \in ListDir(OsListdir(patients_folder, series)) :
                        Continue("for dicoms", patients_folder,
                                 [loop EXCEPT !.series_todo = Tail(loop.series_todo),
                                              !.series_folder_path = series,
                                              !.dicom_todo = listing])
    /\ UNCHANGED << delete_segmentations, shared_segmentations, structurer_fixed,
                    outside_structurer >>

\* Lines 342-352: the next file of the series folder is moved to the patient
\* folder and renamed IM{file_idx}; after the last one the series folder is
\* removed if it is empty, and ValueError is raised if it is not.
destructure_images_dicoms ==
    /\ structurer_pc = "for dicoms"
    /\ IF loop.dicom_todo = <<>>
       THEN IF OsListdir(patients_folder, loop.series_folder_path) # {}
            THEN Fail("ValueError", patients_folder)
            ELSE Continue("for series_folder",
                          Rmtree(patients_folder, loop.series_folder_path), loop)
       ELSE LET dicoms == Head(loop.dicom_todo)
                moved == ShutilMove(patients_folder,
                                    Append(loop.series_folder_path, dicoms),
                                    loop.path_to_patient_folder)
                renamed == OsRename(moved.tree,
                                    Append(loop.path_to_patient_folder, dicoms),
                                    Append(loop.path_to_patient_folder, IM(loop.file_idx)))
            IN  IF moved.raised # NoException THEN Fail(moved.raised, moved.tree)
                ELSE IF renamed.raised # NoException
                THEN Fail(renamed.raised, renamed.tree)
                ELSE Continue("for dicoms", renamed.tree,
                              [loop EXCEPT !.dicom_todo = Tail(loop.dicom_todo),
                                           !.file_idx = loop.file_idx + 1])
    /\ UNCHANGED << delete_segmentations, shared_segmentations, structurer_fixed,
                    outside_structurer >>

\* Path.__init__ (path.py, lines 75-91) on a patient folder whose listing
\* starts with `first`, the shared folder being listed as `listing`: the
\* exception raised, if any, and the names of paths_to_segmentations.
PathOf(tree, patient, first, listing) ==
    IF DcmreadRaises(tree, Append(patient, first)) # NoException
    THEN [raised |-> DcmreadRaises(tree, Append(patient, first)), paths |-> {}]
    ELSE LET found == matches(listing, tree[Append(patient, first)].PatientID)
         IN  IF found.raised # NoException
             THEN [raised |-> found.raised, paths |-> {}]
             ELSE [raised |-> NoException,
                   paths |-> { listing[k] : k \in { j \in DOMAIN listing : found.value[j] } }]

\* The body of the loop of _structure_segmentations (lines 240-260) for one
\* patient folder, its entries moved in the given order.
StructurePatient(tree, patient, order, paths) ==
    LET images == Append(patient, patient_images_folder_name)
        segmentations == Append(patient, patient_segmentations_folder_name)
        made == OsMkdir(tree, images)
        moved == MoveAll(made.tree, patient, order, images)
        made2 == OsMkdir(moved.tree, segmentations)
    IN  IF made.raised # NoException THEN made
        ELSE IF moved.raised # NoException THEN moved
        ELSE IF made2.raised # NoException THEN made2
        ELSE Ok(ShutilCopyAll(made2.tree, paths, segmentations))

\* _structure_segmentations (lines 238-260), one iteration of
\* `for path in path_generator`: PathGenerator.send (path_generator.py,
\* lines 80-93) gives the next Path or ends the loop, then the body runs.
structure_segmentations ==
    /\ structurer_pc = "_structure_segmentations"
    /\ IF loop.current_index # 0 /\ loop.current_index = Len(loop.patient_todo)
       THEN Return(patients_folder) /\ UNCHANGED shared_segmentations
       ELSE IF loop.current_index + 1 \notin DOMAIN loop.patient_todo
       THEN Fail("IndexError", patients_folder) /\ UNCHANGED shared_segmentations
       ELSE LET patient == << loop.patient_todo[loop.current_index + 1] >>
            IN  IF ListdirRaises(patients_folder, patient) # NoException
                THEN /\ Fail(ListdirRaises(patients_folder, patient), patients_folder)
                     /\ UNCHANGED shared_segmentations
                ELSE IF OsListdir(patients_folder, patient) = {}
                THEN Fail("IndexError", patients_folder) /\ UNCHANGED shared_segmentations
                ELSE \E first \in OsListdir(patients_folder, patient),
                        listing \in ListDir(shared_segmentations),
                        order \in ListDir(OsListdir(patients_folder, patient)
                                          \cup {patient_images_folder_name}) :
                        LET path == PathOf(patients_folder, patient, first, listing)
                            done == StructurePatient(patients_folder, patient, order,
                                                     path.paths)
                        IN  IF path.raised # NoException
                            THEN /\ Fail(path.raised, patients_folder)
                                 /\ UNCHANGED shared_segmentations
                            ELSE IF done.raised # NoException
                            THEN /\ Fail(done.raised, done.tree)
                                 /\ UNCHANGED shared_segmentations
                            ELSE /\ Continue("_structure_segmentations", done.tree,
                                             [loop EXCEPT !.current_index =
                                                              loop.current_index + 1])
                                 /\ shared_segmentations' =
                                        SourceAfterCopy(shared_segmentations, path.paths)
    /\ UNCHANGED << delete_segmentations, structurer_fixed, outside_structurer >>

\* destructure (lines 197-219): the category test; the unimplemented
\* combination raises, the others enter _destructure_segmentations (line 275
\* lists the patients folder).
destructure ==
    /\ structurer_pc = "idle"
    /\ calls \in { <<>>, << "structure" >> }
    /\ calls' = Append(calls, "destructure")
    /\ \E delete \in BOOLEAN :
          /\ delete_segmentations' = delete
          /\ IF /\ segmentations_structure_category = InEachPatientFolder
                /\ images_structure_category = PatientStudySeriesInstanceHierarchy
             THEN Fail("NotImplementedError", patients_folder)
             ELSE \E listing \in ListDir(OsListdir(patients_folder, <<>>)) :
                     Continue("_destructure_segmentations", patients_folder,
                              [loop EXCEPT !.patient_todo = listing])
    /\ UNCHANGED << shared_segmentations, images_structure_category,
                    segmentations_structure_category, original, foreign,
                    outside_structurer >>

\* The body of the loop of _destructure_segmentations (lines 277-295) for
\* one patient folder, the entries of its two folders moved in the given
\* orders.
DestructurePatient(tree, patient, seg_order, dicom_order) ==
    LET segmentations == Append(patient, patient_segmentations_folder_name)
        images == Append(patient, patient_images_folder_name)
        emptied == IF ListdirRaises(tree, segmentations) # NoException
                   THEN Raises(ListdirRaises(tree, segmentations), tree)
                   ELSE IF delete_segmentations
                   THEN Ok(Rmtree(tree, segmentations))
                   ELSE LET moved == MoveAll(tree, segmentations, seg_order, patient)
                        IN  IF moved.raised # NoException THEN moved
                            ELSE OsRmdir(moved.tree, segmentations)
        flattened == IF ListdirRaises(emptied.tree, images) # NoException
                     THEN Raises(ListdirRaises(emptied.tree, images), emptied.tree)
                     ELSE LET moved == MoveAll(emptied.tree, images, dicom_order, patient)
                          IN  IF moved.raised # NoException THEN moved
                              ELSE OsRmdir(moved.tree, images)
    IN  IF emptied.raised # NoException THEN emptied ELSE flattened

\* _destructure_segmentations (lines 275-295), one patient folder; after the
\* last one destructure goes on (lines 219-222): category 3 enters
\* _structure_images (line 303 lists the patients folder), the others return.
destructure_segmentations ==
    /\ structurer_pc = "_destructure_segmentations"
    /\ IF loop.patient_todo = <<>>
       THEN IF /\ segmentations_structure_category = AllInOneFolder
               /\ images_structure_category = PatientStudySeriesInstanceHierarchy
            THEN \E listing \in ListDir(OsListdir(patients_folder, <<>>)) :
                    Continue("_structure_images", patients_folder,
                             [loop EXCEPT !.patient_todo = listing])
            ELSE Return(patients_folder)
       ELSE LET patient == << Head(loop.patient_todo) >>
            IN  \E seg_order \in ListDir(OsListdir(patients_folder,
                                   Append(patient, patient_segmentations_folder_name))),
                   dicom_order \in ListDir(OsListdir(patients_folder,
                                   Append(patient, patient_images_folder_name))) :
                   LET done == DestructurePatient(patients_folder, patient,
                                                  seg_order, dicom_order)
                   IN  IF done.raised # NoException
                       THEN Fail(done.raised, done.tree)
                       ELSE Continue("_destructure_segmentations", done.tree,
                                     [loop EXCEPT !.patient_todo =
                                                      Tail(loop.patient_todo)])
    /\ UNCHANGED << delete_segmentations, shared_segmentations, structurer_fixed,
                    outside_structurer >>

\* _structure_images, lines 303-310: the next patient folder is listed and
\* the counters start at 1; after the last one destructure returns.
structure_images_patient ==
    /\ structurer_pc = "_structure_images"
    /\ IF loop.patient_todo = <<>>
       THEN Return(patients_folder)
       ELSE LET patient == << Head(loop.patient_todo) >>
            IN  IF ListdirRaises(patients_folder, patient) # NoException
                THEN Fail(ListdirRaises(patients_folder, patient), patients_folder)
                ELSE \E listing \in ListDir(OsListdir(patients_folder, patient)) :
                        Continue("for files", patients_folder,
                                 [loop EXCEPT !.patient_todo = Tail(loop.patient_todo),
                                              !.path_to_patient_folder = patient,
                                              !.study_dict = {},
                                              !.series_dict = {},
                                              !.it_study = 1,
                                              !.it_series = 1,
                                              !.dicom_todo = listing])
    /\ UNCHANGED << delete_segmentations, shared_segmentations, structurer_fixed,
                    outside_structurer >>

\* dict[key] of a dictionary kept as a set of <<key, value>> pairs.
Lookup(dict, key) == (CHOOSE pair \in dict : pair[1] = key)[2]

\* Lines 310-328 for one file: the header is read, the study folder and the
\* series folder are made when their identifier is new, the file is moved.
StructureFile(tree, patient, file, locals) ==
    LET file_path == Append(patient, file)
        study_uid == tree[file_path].StudyInstanceUID
        series_uid == tree[file_path].SeriesInstanceUID
        new_study == \A pair \in locals.study_dict : pair[1] # study_uid
        new_series == \A pair \in locals.series_dict : pair[1] # series_uid
        study_dict == IF new_study
                      THEN locals.study_dict \cup { << study_uid, locals.it_study >> }
                      ELSE locals.study_dict
        series_dict == IF new_series
                       THEN locals.series_dict \cup { << series_uid, locals.it_series >> }
                       ELSE locals.series_dict
        study_path == Append(patient, StudyName(Lookup(study_dict, study_uid)))
        series_path == Append(study_path, SeriesName(Lookup(series_dict, series_uid)))
        made == IF new_study THEN OsMkdir(tree, study_path) ELSE Ok(tree)
        made2 == IF new_series THEN OsMkdir(made.tree, series_path) ELSE Ok(made.tree)
        moved == ShutilMove(made2.tree, file_path, series_path)
        after == [locals EXCEPT !.study_dict = study_dict,
                                !.series_dict = series_dict,
                                !.it_study = IF new_study THEN @ + 1 ELSE @,
                                !.it_series = IF new_series THEN @ + 1 ELSE @,
                                !.dicom_todo = Tail(@)]
    IN  IF DcmreadRaises(tree, file_path) # NoException
        THEN [raised |-> DcmreadRaises(tree, file_path), tree |-> tree, locals |-> locals]
        ELSE IF made.raised # NoException
        THEN [raised |-> made.raised, tree |-> made.tree, locals |-> locals]
        ELSE IF made2.raised # NoException
        THEN [raised |-> made2.raised, tree |-> made2.tree, locals |-> locals]
        ELSE [raised |-> moved.raised, tree |-> moved.tree, locals |-> after]

\* Lines 310-328, one iteration of `for files in os.listdir(...)`.
structure_images_files ==
    /\ structurer_pc = "for files"
    /\ IF loop.dicom_todo = <<>>
       THEN Continue("_structure_images", patients_folder, loop)
       ELSE LET done == StructureFile(patients_folder, loop.path_to_patient_folder,
                                      Head(loop.dicom_todo), loop)
            IN  IF done.raised # NoException
                THEN Fail(done.raised, done.tree)
                ELSE Continue("for files", done.tree, done.locals)
    /\ UNCHANGED << delete_segmentations, shared_segmentations, structurer_fixed,
                    outside_structurer >>

\* Another process drops a file in the series folder or the study folder
\* that _destructure_images is emptying, after the folder was listed.
ForeignFile ==
    /\ ~foreign
    /\ \E folder \in { loop.study_folder_path, loop.series_folder_path } :
          /\ \/ structurer_pc = "for dicoms"
             \/ structurer_pc = "for series_folder" /\ folder = loop.study_folder_path
          /\ IsDir(patients_folder, folder)
          /\ Append(folder, <<"x">>) \notin DOMAIN patients_folder
          /\ patients_folder' =
                [q \in DOMAIN patients_folder \cup { Append(folder, <<"x">>) } |->
                   IF q \in DOMAIN patients_folder THEN patients_folder[q]
                   ELSE [kind |-> "dicom", PatientID |-> <<>>,
                         StudyInstanceUID |-> <<>>, SeriesInstanceUID |-> <<>>,
                         origin |-> <<"foreign">>]]
    /\ foreign' = TRUE
    /\ UNCHANGED << images_structure_category, segmentations_structure_category,
                    delete_segmentations, shared_segmentations, structurer_pc,
                    structurer_raised, calls, loop, original, outside_structurer >>

NextStructurer ==
    \/ structure
    \/ destructure_images_patient
    \/ destructure_images_study
    \/ destructure_images_series
    \/ destructure_images_dicoms
    \/ structure_segmentations
    \/ destructure
    \/ destructure_segmentations
    \/ structure_images_patient
    \/ structure_images_files
    \/ ForeignFile

SpecStructurer == InitStructurer /\ [][NextStructurer]_vars

(***************************************************************************)
(* Properties of write().                                                  *)
(***************************************************************************)
\* The entries of the save history that belong to source file f.
SavedFor(f) == { n \in DOMAIN saved : saved[n].src = f }

\* C1: whenever a name disappears from the segmentations folder, a save_as
\* for an output of that same source file has succeeded before, and that
\* output is in the folder at the moment of the removal.
C1_WriteBeforeDelete ==
    [][ \A f \in segmentations_folder \ segmentations_folder' :
           \E n \in SavedFor(f) : saved[n].path \in segmentations_folder ]_vars

\* C1 witness: cleanup is enabled and a source file has been removed.
C1_Witness ==
    /\ delete_itk_segmentation_files
    /\ Len(removed) >= 1
    /\ removed[1] \notin segmentations_folder

\* C2: when the series read, the resampling, the encoding or the save has
\* raised, the source file of the round is still in the folder, it was never
\* removed, and every output saved for it in earlier rounds is in the folder.
C2_FailureKeepsSource ==
    (raised # NoException /\ pc \in {"read_image", "resample", "encode", "save"}) =>
        /\ path_to_seg \in segmentations_folder
        /\ \A n \in DOMAIN removed : removed[n] # path_to_seg
        /\ \A n \in SavedFor(path_to_seg) : saved[n].path \in segmentations_folder

\* C2 witness: with cleanup enabled, the encoding of a second round raises
\* after the first round's output was saved.
C2_Witness ==
    /\ delete_itk_segmentation_files
    /\ raised # NoException
    /\ pc = "encode"
    /\ rounds = 2
    /\ SavedFor(path_to_seg) # {}

\* The files of the list whose association rounds are all over.
CompletedFiles ==
    IF pc \in {"create_writer", "listdir"} THEN 0
    ELSE IF pc \in {"for", "done"} THEN file_no
    ELSE file_no - 1

\* C3: with cleanup enabled the removed files are, at every moment, exactly
\* the files whose rounds are all over, each removed once and in list order;
\* the file whose rounds are in progress is never removed, and a file is
\* complete only after the answer 'n' or, without multi-images association,
\* after its single round.
C3_RemovedOnceAfterLastRound ==
    /\ \A m, n \in DOMAIN removed : m # n => removed[m] # removed[n]
    /\ delete_itk_segmentation_files =>
          removed = SubSeq(paths_to_segmentations, 1, CompletedFiles)
    /\ (pc = "for" /\ file_no >= 1) =>
          /\ process_complete
          /\ enable_multi_images_association => answer = <<"n">>
          /\ ~enable_multi_images_association => rounds = 1
          /\ saved # <<>>
          /\ saved[Len(saved)].src = path_to_seg
          /\ saved[Len(saved)].round = rounds - 1

\* C3 witness: a file was removed after the second of its two rounds.
C3_Witness ==
    /\ delete_itk_segmentation_files
    /\ enable_multi_images_association
    /\ pc = "for"
    /\ rounds = 2
    /\ Len(removed) = 1
    /\ removed[1] = path_to_seg
    /\ Cardinality(SavedFor(path_to_seg)) = 2

\* The reply is an integer k with 0 <= k < N, N the number of indexed series.
SelectionInRange(r) ==
    /\ PyInt(r).ok
    /\ 0 <= PyInt(r).val
    /\ PyInt(r).val < Len(dicom_folder)

\* C4: the resolver returns (control reaches the load of line 312) only on a
\* reply that is an integer k, 0 <= k < N; after any other reply it is back at
\* the prompt, having reported an error.
C4_ReturnsOnlyOnIndexInRange ==
    /\ pc = "load" => SelectionInRange(series_idx)
    /\ (pc = "prompt_index" /\ series_idx # NoReply) =>
          ~SelectionInRange(series_idx) /\ printed \in {"IndexError", "ValueError"}

\* C5: in a round, a reply that is no valid index (0 <= k < N) leads back to
\* the prompt; a valid one ends the resolver with that series chosen; the
\* steps after the resolver are entered only on a valid reply, and the prompt
\* is entered only at the start of a round or after an invalid reply.
C5_OneValidIndexPerRound ==
    [][ /\ (pc = "await_index" /\ pc' # "await_index") =>
              IF SelectionInRange(series_idx')
              THEN pc' = "load" /\ source_images' = PyInt(series_idx').val
              ELSE pc' = "prompt_index"
        /\ (pc # "prompt_index" /\ pc' = "prompt_index") =>
              pc \in {"associate", "await_index"} ]_vars

\* C6: no reply makes the resolver raise; an integer reply outside 0..N-1 is
\* reported as IndexError and a reply that is no integer as ValueError, and
\* the report is on the console when control is back at the prompt.
C6_MalformedInputReported ==
    [][ (pc = "await_index" /\ pc' # "await_index") =>
           /\ raised' = NoException
           /\ (PyInt(series_idx').ok /\ ~SelectionInRange(series_idx')) =>
                 printed' = "IndexError" /\ pc' = "prompt_index"
           /\ ~PyInt(series_idx').ok =>
                 printed' = "ValueError" /\ pc' = "prompt_index" ]_vars

\* C7: is_segmentation_association_process_complete has returned only when
\* the last answer is exactly "y" or exactly "n"; it returned True exactly
\* for "n" and False exactly for "y"; after any other answer it reported
\* "try again" and is back at its prompt.
C7_ExactYesNo ==
    enable_multi_images_association =>
        /\ pc = "cleanup" =>
              /\ answer \in {<<"y">>, <<"n">>}
              /\ process_complete <=> answer = <<"n">>
              /\ ~process_complete <=> answer = <<"y">>
        /\ (pc = "prompt_more" /\ answer # NoReply) =>
              /\ answer \notin {<<"y">>, <<"n">>}
              /\ printed = "try_again"

\* C7 witness: the helper returned True on the answer "n".
C7_Witness ==
    /\ enable_multi_images_association
    /\ pc = "cleanup"
    /\ answer = <<"n">>
    /\ process_complete

\* stem is name without its last extension: name is stem followed by a
\* suffix "." + characters without a dot, cut at a dot that is neither the
\* first nor the last character; a name without such a dot is its own stem.
IsNameWithoutLastExtension(stem, name) ==
    LET cuts == { j \in 2..(Len(name) - 1) :
                    name[j] = "." /\ \A m \in (j + 1)..Len(name) : name[m] # "." }
    IN  IF cuts = {} THEN stem = name
        ELSE \E j \in cuts : stem = SubSeq(name, 1, j - 1)

\* C8: the n-th save of a segmentation file (n counted from 0 for every
\* file, one per round) is at <stem>_<n>.SEG.dcm; P.seg.nrrd gives
\* P.seg_0.SEG.dcm.
C8_OutputPath ==
    \A n \in DOMAIN saved :
        /\ saved[n].round = Cardinality({ m \in SavedFor(saved[n].src) : m < n })
        /\ \E j \in 0..Len(saved[n].src) :
              /\ IsNameWithoutLastExtension(SubSeq(saved[n].src, 1, j), saved[n].src)
              /\ saved[n].path =
                    SubSeq(saved[n].src, 1, j) \o <<"_", DIGITS[saved[n].round + 1]>>
                       \o <<".", "S", "E", "G", ".", "d", "c", "m">>
        /\ (saved[n].src = P_SEG_NRRD /\ saved[n].round = 0) =>
              saved[n].path = <<"P", ".", "s", "e", "g", "_", "0",
                                ".", "S", "E", "G", ".", "d", "c", "m">>

\* C8 witness: the second round of P.seg.nrrd was saved as P.seg_1.SEG.dcm.
C8_Witness ==
    \E n \in DOMAIN saved :
        /\ saved[n].src = P_SEG_NRRD
        /\ saved[n].round = 1
        /\ saved[n].path = <<"P", ".", "s", "e", "g", "_", "1",
                             ".", "S", "E", "G", ".", "d", "c", "m">>

\* C9: with multi-images association, a file is complete after K-1 answers
\* 'y' and then 'n': K rounds were run and K outputs were saved for it, with
\* the indices 0..K-1, all in the folder.
C9_RoundsAndOutputs ==
    (enable_multi_images_association /\ pc = "for" /\ file_no >= 1) =>
        /\ answer = <<"n">>
        /\ rounds = yes_answers + 1
        /\ Cardinality(SavedFor(path_to_seg)) = yes_answers + 1
        /\ { saved[n].round : n \in SavedFor(path_to_seg) } = 0..yes_answers
        /\ \A n \in SavedFor(path_to_seg) :
              saved[n].path = NewPath(path_to_seg, saved[n].round)

\* C9 witness: one 'y', then 'n': two rounds, two outputs.
C9_Witness ==
    /\ enable_multi_images_association
    /\ pc = "for"
    /\ file_no >= 1
    /\ yes_answers = 1
    /\ rounds = 2
    /\ { saved[n].round : n \in SavedFor(path_to_seg) } = {0, 1}

\* C10: no two saves of one write() call go to the same path.
C10_DistinctOutputPaths ==
    \A m, n \in DOMAIN saved : m # n => saved[m].path # saved[n].path


\* C11: the SOPInstanceUIDs of the saved objects are pairwise distinct, and so
\* are their SeriesInstanceUIDs; the n-th saved object holds the values of the
\* two calls of generate_uid made in its own round, the (2n-1)-th and the
\* 2n-th, and no generated value is held twice, by two objects or by the two
\* identifiers of one.
C11_DistinctGeneratedUids ==
    /\ \A m, n \in DOMAIN saved :
          m # n => /\ saved[m].SOPInstanceUID # saved[n].SOPInstanceUID
                   /\ saved[m].SeriesInstanceUID # saved[n].SeriesInstanceUID
    /\ \A m, n \in DOMAIN saved :
          saved[m].SOPInstanceUID # saved[n].SeriesInstanceUID
    /\ \A n \in DOMAIN saved :
          /\ saved[n].SOPInstanceUID = generate_uid(2 * n - 1)
          /\ saved[n].SeriesInstanceUID = generate_uid(2 * n)
          /\ 2 * n <= uid_count

\* Two objects were saved for one segmentation file, in two rounds.
C11_Witness ==
    \E m, n \in DOMAIN saved :
        /\ m < n
        /\ saved[m].src = saved[n].src
        /\ saved[m].round < saved[n].round

\* C12: every saved object carries two identifiers issued by generate_uid:
\* neither is the identifier the encoding library had put in the dataset, and
\* the SeriesInstanceUID is the identifier of no series of the DICOM folder;
\* a dataset that is about to be saved has had both identifiers replaced.
C12_SavedUidsAreGenerated ==
    LET Issued == { generate_uid(k) : k \in 1..uid_count }
    IN  /\ \A n \in DOMAIN saved :
              /\ saved[n].SOPInstanceUID \in Issued
              /\ saved[n].SeriesInstanceUID \in Issued
              /\ saved[n].SOPInstanceUID # LibraryUid
              /\ saved[n].SeriesInstanceUID # LibraryUid
              /\ \A s \in SeriesIds : saved[n].SeriesInstanceUID # SeriesUid(s)
        /\ At("save") => /\ dcm.SOPInstanceUID \in Issued
                         /\ dcm.SeriesInstanceUID \in Issued

\* An object was saved; the dataset, built by the library, holds the
\* identifiers that were saved.
C12_Witness ==
    /\ saved # <<>>
    /\ dcm.segmentation.file = saved[Len(saved)].src
    /\ dcm.SOPInstanceUID = saved[Len(saved)].SOPInstanceUID
    /\ dcm.SOPInstanceUID # LibraryUid


\* The order of the steps of write(), as pairs of successive control
\* positions: a file is taken up, the series is chosen (with retries), the
\* label map is read, resampled or not, encoded, given its identifiers and
\* saved; the continuation question is asked (with retries) or not; cleanup
\* leads to a further round or to the end of the file.
StepOrder ==
    { << "create_writer", "listdir" >>, << "listdir", "for" >>,
      << "for", "associate" >>, << "for", "done" >>,
      << "associate", "prompt_index" >>, << "prompt_index", "await_index" >>,
      << "await_index", "prompt_index" >>, << "await_index", "load" >>,
      << "load", "read_image" >>, << "read_image", "resample" >>,
      << "resample", "encode" >>, << "load", "encode" >>,
      << "encode", "assign_uids" >>, << "assign_uids", "save" >>,
      << "save", "prompt_more" >>, << "save", "cleanup" >>,
      << "prompt_more", "await_more" >>, << "await_more", "prompt_more" >>,
      << "await_more", "cleanup" >>,
      << "cleanup", "associate" >>, << "cleanup", "for" >> }

\* C13: the steps of a file follow one another in the order pending,
\* association, optional resampling, encoding, save, optional continuation
\* question, then association again or done: the label map is read and
\* encoded only once the series of the round is chosen, a dataset is saved
\* only once encoded in the round, the question is asked only after a save,
\* and a file is done only after a save or after the question.
C13_StepOrder ==
    [][ /\ pc' # pc => << pc, pc' >> \in StepOrder
        /\ pc' = "load" /\ pc # "load" =>
              source_images' + 1 \in SeriesIds /\ series_idx' # NoReply
        /\ dcm' # dcm /\ pc = "encode" =>
              /\ dcm'.source_images = source_images
              /\ dcm'.segmentation.file = path_to_seg
        /\ saved' # saved <=> pc = "save" /\ pc' \in {"prompt_more", "cleanup"}
        /\ pc = "save" /\ pc' = "prompt_more" => enable_multi_images_association
        /\ pc = "save" /\ pc' = "cleanup" => ~enable_multi_images_association
        /\ pc = "cleanup" /\ pc' = "for" => process_complete
        /\ pc = "cleanup" /\ pc' = "associate" => ~process_complete
      ]_vars

\* A file went through two rounds, the second one after the question, and
\* write() ended.
C13_Witness ==
    /\ pc = "done"
    /\ rounds = 2
    /\ Len(saved) >= 2
    /\ answer = <<"n">>

\* C14: the series is read as a 3D image and the label map resampled onto
\* its grid in the rounds of a call whose resampling flag is true, and only
\* in those: with the flag the encoder receives the label map on the grid of
\* the chosen series; without it the encoder receives the label map as it was
\* read, and no series is ever read as an image.
C14_ResamplingIffFlag ==
    /\ pc \in {"read_image", "resample"} => resample_segmentation_to_source_image_size
    /\ resample_segmentation_to_source_image_size =>
          /\ pc = "encode" =>
                /\ image = source_images
                /\ segmentation = [file |-> path_to_seg, grid |-> source_images, from |-> NoSeries]
          /\ pc \in {"assign_uids", "save"} =>
                dcm.segmentation = [file |-> path_to_seg, grid |-> source_images, from |-> NoSeries]
    /\ ~resample_segmentation_to_source_image_size =>
          /\ image = NoSeries
          /\ segmentation.grid = NoSeries
          /\ pc \in {"assign_uids", "save"} =>
                dcm.segmentation = [file |-> path_to_seg, grid |-> NoSeries, from |-> NoSeries]

\* Without the flag, a label map was encoded as it was read.
C14_Witness ==
    /\ ~resample_segmentation_to_source_image_size
    /\ At("save")
    /\ dcm.segmentation = [file |-> path_to_seg, grid |-> NoSeries, from |-> NoSeries]
    /\ dcm.segmentation = segmentation


(***************************************************************************)
(* Properties of _resample_mask.                                           *)
(***************************************************************************)
\* The set of the voxel values of volume v.
VoxelValues(v) == { v.values[j] : j \in DOMAIN v.values }

\* Volumes v and w have the same voxel dimensions, spacing, origin and
\* direction.
SameGrid(v, w) ==
    /\ v.size = w.size
    /\ v.spacing = w.spacing
    /\ v.origin = w.origin
    /\ v.direction = w.direction

\* Twice the physical position of the two ends of the extent of volume v:
\* half a voxel before its first centre, half a voxel after its last one.
ExtentLow2(v) ==
    LET a == Position(v, 0)
        b == Position(v, v.size - 1)
    IN  2 * (IF a < b THEN a ELSE b) - v.spacing
ExtentHigh2(v) ==
    LET a == Position(v, 0)
        b == Position(v, v.size - 1)
    IN  2 * (IF a < b THEN b ELSE a) + v.spacing

\* C15 as stated: every voxel value of a volume returned by _resample_mask is
\* a voxel value of the segmentation it was given.
C15_LabelPreservation ==
    \A k \in DOMAIN resampled : VoxelValues(resampled[k]) \subseteq VoxelValues(mask)

\* C15 amended: every voxel value of a volume returned by _resample_mask is a
\* voxel value of the segmentation it was given or the fill value 0, and a
\* voxel that lies inside the extent of the segmentation holds one of the
\* segmentation's values.
C15_LabelPreservationOrFill ==
    \A k \in DOMAIN resampled :
        \A j \in 1..resampled[k].size :
            LET p2 == 2 * Position(resampled[k], j - 1)
                v == resampled[k].values[j]
            IN  /\ v \in VoxelValues(mask) \cup {0}
                /\ ExtentLow2(mask) < p2 /\ p2 < ExtentHigh2(mask)
                      => v \in VoxelValues(mask)

\* A segmentation without the value 0 was resampled onto another grid: the
\* result holds one of its labels and, outside its extent, the fill value.
C15_Witness ==
    /\ resampled # <<>>
    /\ ~SameGrid(mask, reference_image)
    /\ 0 \notin VoxelValues(mask)
    /\ 0 \in VoxelValues(resampled[1])
    /\ VoxelValues(resampled[1]) \cap VoxelValues(mask) # {}

\* C16: a segmentation that is already on the grid of the reference image is
\* returned with the same voxel values, voxel for voxel, and resampling a
\* returned volume onto the same reference grid again returns the same
\* values.
C16_ResamplingIdempotence ==
    /\ SameGrid(mask, reference_image) /\ resampled # <<>> =>
          resampled[1].values = mask.values
    /\ \A k \in DOMAIN resampled :
          k > 1 => resampled[k].values = resampled[k - 1].values

\* A segmentation on the grid of the reference image, with two different
\* labels, was resampled twice.
C16_Witness ==
    /\ SameGrid(mask, reference_image)
    /\ Len(resampled) >= 2
    /\ Cardinality(VoxelValues(mask)) > 1
    /\ resampled[2].values = mask.values

\* C17: a volume returned by _resample_mask has the voxel dimensions,
\* spacing, origin and direction of the reference image and the pixel type of
\* the segmentation, and holds 0 at every voxel outside the extent of the
\* segmentation.
C17_ReferenceGridPixelTypeAndFill ==
    resampled # <<>> =>
        /\ SameGrid(resampled[1], reference_image)
        /\ Len(resampled[1].values) = reference_image.size
        /\ resampled[1].pixel_id = mask.pixel_id
        /\ \A j \in 1..resampled[1].size :
              LET p2 == 2 * Position(resampled[1], j - 1)
              IN  p2 < ExtentLow2(mask) \/ p2 > ExtentHigh2(mask)
                      => resampled[1].values[j] = 0

\* A segmentation was resampled onto a grid that reaches outside its extent
\* and differs from its own, the voxel outside holding 0 and one inside a
\* label other than 0.
C17_Witness ==
    /\ resampled # <<>>
    /\ ~SameGrid(mask, reference_image)
    /\ mask.pixel_id # reference_image.pixel_id
    /\ \E j \in 1..resampled[1].size :
          /\ 2 * Position(resampled[1], j - 1) > ExtentHigh2(mask)
          /\ resampled[1].values[j] = 0
    /\ \E j \in 1..resampled[1].size : resampled[1].values[j] # 0


(***************************************************************************)
(* Properties of the indexing of the series.                               *)
(***************************************************************************)
\* The entries of the listing of the segmentations folder.
ListedSegmentations ==
    { paths_to_segmentations[k] : k \in DOMAIN paths_to_segmentations }

\* Nothing has been displayed or asked, no series chosen, no label map read,
\* no dataset encoded, no identifier generated, nothing saved or removed.
NothingDone ==
    /\ printed = "nothing"
    /\ series_idx = NoReply
    /\ source_images = NoSeries
    /\ segmentation = NoSegmentation
    /\ dcm = NoDataset
    /\ uid_count = 0
    /\ saved = <<>>
    /\ removed = <<>>
    /\ pc \in {"create_writer", "listdir", "for", "associate", "done"}
    /\ pc \in {"for", "associate", "done"} => segmentations_folder = ListedSegmentations

C19_LaterPatientsStillProcessed ==
    script_pc \in {"end", "raised"} =>
        \A p, q \in DOMAIN patients :
            /\ p < q
            /\ p <= patient_no
            /\ WriteOutcome(patients[p]) = "FileNotFoundError"
            => q <= patient_no

\* C20: with more than one patient identifier among the series, the round
\* that indexes them raises the multi-patient error at its association step,
\* the list of series not displayed, no index asked, nothing encoded, saved
\* or removed; with exactly one identifier that error is never raised.
C20_MultiPatientErrorBeforeDisplay ==
    /\ Cardinality(AllPatientUids) > 1 =>
          /\ NothingDone
          /\ pc = "associate" /\ rounds > 0 => raised = "AssertionError"
    /\ raised = "AssertionError" =>
          /\ Cardinality(AllPatientUids) > 1
          /\ pc = "associate"
          /\ \A n \in DOMAIN saved :
                ~(saved[n].src = path_to_seg /\ saved[n].round = rounds - 1)
    /\ Cardinality(AllPatientUids) = 1 => raised # "AssertionError"

\* The series of two patients were indexed and the multi-patient error was
\* raised.
C20_Witness ==
    /\ Cardinality(AllPatientUids) = 2
    /\ rounds = 1
    /\ raised = "AssertionError"
    /\ printed = "nothing"


(***************************************************************************)
(* Further properties of write().                                          *)
(***************************************************************************)
\* C21: when the metadata template cannot be parsed, write() fails before
\* the segmentations folder is listed: no series has been indexed, nothing
\* displayed or asked, nothing encoded, written or removed, whatever the
\* number of segmentation files.
C21_TemplateErrorBeforeAnyFile ==
    raised = "TemplateError" =>
        /\ pc = "create_writer"
        /\ paths_to_segmentations = <<>>
        /\ file_no = 0
        /\ rounds = 0
        /\ NothingDone

\* The template of a patient with several segmentation files and several
\* series could not be parsed.
C21_Witness ==
    /\ raised = "TemplateError"
    /\ Cardinality(segmentations_folder) > 1
    /\ Cardinality(SeriesIds) > 1

\* C22: a step of the two helpers that ask the operator (the indexing and
\* display of the series, the prompts, the replies, valid or not) leaves
\* the segmentations folder and the DICOM folder as they were: nothing is
\* created, written or removed.
C22_AssociationLeavesFilesystem ==
    [][ (pc \in {"associate", "prompt_index", "await_index",
                 "prompt_more", "await_more"}) =>
            (/\ segmentations_folder' = segmentations_folder
             /\ dicom_folder' = dicom_folder
             /\ saved' = saved
             /\ removed' = removed) ]_vars

\* After a save, an answer to the continuation question was refused and the
\* question asked again; the source file, which is to be removed, and the
\* output are in the folder.
C22_Witness ==
    /\ At("await_more")
    /\ delete_itk_segmentation_files
    /\ answer # NoReply
    /\ ~AnswerAccepted(answer)
    /\ printed = "more_prompt"
    /\ path_to_seg \in segmentations_folder
    /\ NewPath(path_to_seg, i) \in segmentations_folder

\* C30: without multi-images association, at most one round is run for a
\* segmentation file, its index stays 0, the continuation question is never
\* asked, and a file that is complete has had exactly one round and has
\* exactly one output, of index 0.
C30_OneRoundWithoutMultiAssociation ==
    ~enable_multi_images_association =>
        /\ rounds <= 1
        /\ i = 0
        /\ yes_answers = 0
        /\ answer = NoReply
        /\ pc \notin {"prompt_more", "await_more"}
        /\ printed \notin {"more_prompt", "try_again"}
        /\ \A n \in DOMAIN saved :
              /\ saved[n].round = 0
              /\ saved[n].path = NewPath(saved[n].src, 0)
        /\ \A m, n \in DOMAIN saved : saved[m].src = saved[n].src => m = n
        /\ \A k \in 1..Len(paths_to_segmentations) :
              (k < file_no \/ (k = file_no /\ pc \in {"for", "done"})) =>
                  Cardinality(SavedFor(paths_to_segmentations[k])) = 1
        /\ pc \in {"for", "done"} /\ file_no >= 1 => rounds = 1

\* Without multi-images association, two files were completed, each with
\* one output.
C30_Witness ==
    /\ ~enable_multi_images_association
    /\ pc = "done"
    /\ Len(saved) = 2
    /\ file_no = 2


\* Every entry of the listing has an output.
EveryFileCompleted ==
    \A k \in DOMAIN paths_to_segmentations :
        SavedFor(paths_to_segmentations[k]) # {}

OccurrenceNotFollowedByDigit(name, id) ==
    \E p \in 0..Len(name) :
        /\ p + Len(id) <= Len(name)
        /\ SubSeq(name, p + 1, p + Len(id)) = id
        /\ p + Len(id) < Len(name) => ~IsDigit(name[p + Len(id) + 1])

\* C27: reading matches never raises, and gives one boolean per file name of
\* the listing, true exactly when the name holds an occurrence of the patient
\* id that is not immediately followed by a digit.
C27_MatchesOccurrenceNotFollowedByDigit ==
    matches_returned # NotRead =>
        /\ matches_returned.raised = NoException
        /\ DOMAIN matches_returned.value = DOMAIN paths_to_segmentation_files
        /\ \A k \in DOMAIN paths_to_segmentation_files :
              matches_returned.value[k]
                  <=> OccurrenceNotFollowedByDigit(paths_to_segmentation_files[k],
                                                   patient_id)

\* C26: over a patients folder of N non-empty patient folders, the first N
\* calls of send() return the N folders in listing order and every later
\* call raises StopIteration, for every N from 0 on.
C26_YieldsEveryFolderThenStops ==
    (\A k \in DOMAIN paths_to_patients_dicom_folder :
         ~paths_to_patients_dicom_folder[k].empty) =>
        \A c \in DOMAIN sent :
            IF c <= Len(paths_to_patients_dicom_folder)
            THEN sent[c] = [raised |-> NoException,
                            path |-> paths_to_patients_dicom_folder[c].folder]
            ELSE sent[c].raised = "StopIteration"


(***************************************************************************)
(* Properties of FolderStructurer.                                         *)
(***************************************************************************)
\* The calls made so far are `methods` and the last of them has returned.
Returned(methods) == structurer_pc = "idle" /\ calls = methods

\* The unimplemented combination of categories.
Unimplemented ==
    /\ images_structure_category = PatientStudySeriesInstanceHierarchy
    /\ segmentations_structure_category = InEachPatientFolder

\* C24: for the unimplemented combination, a call of structure or of
\* destructure raises NotImplementedError and never returns, and the tree
\* under the patients folder and the shared segmentations folder stay as
\* they were.
C24_UnimplementedRaisesAndChangesNothing ==
    Unimplemented =>
        /\ patients_folder = original.patients_folder
        /\ shared_segmentations = original.shared_segmentations
        /\ calls # <<>> => /\ structurer_pc = "raised"
                           /\ structurer_raised = "NotImplementedError"

\* C24 witness: destructure was called for the unimplemented combination on
\* a tree that holds two DICOM files, and raised.
C24_Witness ==
    /\ Unimplemented
    /\ calls = << "destructure" >>
    /\ structurer_raised = "NotImplementedError"
    /\ Cardinality({ p \in DOMAIN patients_folder :
                       patients_folder[p].kind = "dicom" }) = 2

\* The contents of the files of a tree.
FileOrigins(tree) == { tree[p].origin : p \in { q \in DOMAIN tree : tree[q].kind # "dir" } }

\* The folders of the tree that a step removes.
RemovedFolders ==
    { p \in DOMAIN patients_folder :
        patients_folder[p].kind = "dir" /\ p \notin DOMAIN patients_folder' }

\* _destructure_images is at the test of a series folder (line 350) or of a
\* study folder (line 354) and the folder is not empty.
FoundNonEmpty ==
    \/ /\ structurer_pc = "for dicoms"
       /\ loop.dicom_todo = <<>>
       /\ OsListdir(patients_folder, loop.series_folder_path) # {}
    \/ /\ structurer_pc = "for series_folder"
       /\ loop.series_todo = <<>>
       /\ OsListdir(patients_folder, loop.study_folder_path) # {}

DicomsUnder(tree, p) ==
    { tree[q].origin : q \in { r \in Under(tree, p) : tree[r].kind = "dicom" } }

\* C28: when structure has returned for segmentation files in one shared
\* folder, the shared folder holds the names it held at the start, and every
\* patient folder holds an images folder with exactly the DICOM files the
\* patient folder held and a segmentations folder with exactly a copy of
\* each shared file whose name holds an occurrence of the patient's id that
\* no digit follows.
C28_StructureCopiesMatchingSegmentations ==
    (segmentations_structure_category = AllInOneFolder /\ Returned(<< "structure" >>)) =>
        /\ shared_segmentations = original.shared_segmentations
        /\ \A name \in OsListdir(patients_folder, <<>>) :
              LET images == << name, patient_images_folder_name >>
                  segmentations == << name, patient_segmentations_folder_name >>
              IN  /\ OsListdir(patients_folder, << name >>)
                        = { patient_images_folder_name, patient_segmentations_folder_name }
                  /\ \A entry \in OsListdir(patients_folder, images) :
                        patients_folder[Append(images, entry)].kind = "dicom"
                  /\ DicomsUnder(patients_folder, images)
                        = DicomsUnder(original.patients_folder, << name >>)
                  /\ OsListdir(patients_folder, segmentations)
                        = { n \in original.shared_segmentations :
                              OccurrenceNotFollowedByDigit(n, PatientIdOf(<< name >>)) }
                  /\ \A entry \in OsListdir(patients_folder, segmentations) :
                        patients_folder[Append(segmentations, entry)]
                          = SegmentationNode(entry)

\* C29: when structure and then destructure have returned, every DICOM file
\* of the tree is at the path it had before structure was called, and the
\* tree holds no other DICOM file.
C29_RoundTripRestoresImages ==
    Returned(<< "structure", "destructure" >>) =>
        /\ \A p \in DOMAIN original.patients_folder :
              original.patients_folder[p].kind = "dicom" =>
                  /\ p \in DOMAIN patients_folder
                  /\ patients_folder[p] = original.patients_folder[p]
        /\ DicomsUnder(patients_folder, <<>>) = DicomsUnder(original.patients_folder, <<>>)

(***************************************************************************)
(* The inputs of the encoder, the entries processed and the files kept.    *)
(***************************************************************************)
\* C31: in every round the series handed to the encoder is the one displayed
\* with the index the operator entered (the displayed indices are the 0-based
\* positions), it is not changed between the choice and the encoding, and
\* with resampling the reference image is read from that same series.
C31_EncoderGetsDisplayedSeries ==
    [][ /\ (pc = "await_index" /\ pc' = "load") =>
              /\ PyInt(series_idx').ok
              /\ source_images' = PyInt(series_idx').val
        /\ (pc \in {"load", "read_image", "resample", "encode"}) =>
              source_images' = source_images /\ dicom_folder' = dicom_folder
        /\ (pc = "read_image" /\ pc' = "resample") => image' = source_images
        /\ (pc = "resample" /\ pc' = "encode") => segmentation'.grid = source_images
        /\ (pc = "encode" /\ pc' = "assign_uids") =>
              dcm'.source_images = source_images ]_vars

\* C32: the folder is listed once; the list is not changed afterwards; the
\* for loop takes its entries one after another, each once, and ends after
\* the last; the label map of a round is read from the current entry; and no
\* entry taken as input is a file that was written during the call.
C32_InputsAreTheEntriesAtStart ==
    [][ /\ (pc = "listdir" /\ pc' = "for") =>
              paths_to_segmentations' \in ListDir(segmentations_folder)
        /\ (pc \notin {"create_writer", "listdir"}) =>
              paths_to_segmentations' = paths_to_segmentations
        /\ file_no' # file_no =>
              /\ file_no' = file_no + 1
              /\ pc = "for"
              /\ file_no' <= Len(paths_to_segmentations)
        /\ pc' = "done" => file_no' = Len(paths_to_segmentations')
        /\ (pc = "load" /\ pc' # "load") => segmentation'.file = path_to_seg
        /\ pc = "load" => \A n \in DOMAIN saved : saved[n].path # path_to_seg ]_vars

\* C33: in every round the label map is read again from the current source
\* file; the volume given to the resampling is that original volume, never
\* one an earlier round resampled, its result is on the grid of the series
\* chosen in this round, and the volume the encoder receives is determined by
\* the file, the flag and the series of this round alone.
C33_EachRoundStartsFromTheSourceFile ==
    [][ /\ (pc = "load" /\ pc' # "load") =>
              segmentation' = [file |-> path_to_seg, grid |-> NoSeries, from |-> NoSeries]
        /\ (pc = "resample" /\ pc' = "encode") =>
              /\ segmentation = [file |-> path_to_seg, grid |-> NoSeries, from |-> NoSeries]
              /\ segmentation' = [file |-> path_to_seg, grid |-> source_images,
                                  from |-> NoSeries]
        /\ (pc = "encode" /\ pc' = "assign_uids") =>
              dcm'.segmentation =
                 [file |-> path_to_seg,
                  grid |-> IF resample_segmentation_to_source_image_size
                           THEN source_images ELSE NoSeries,
                  from |-> NoSeries] ]_vars

\* The second round of a file has resampled the label map onto another series
\* than the first round did.
C33_Witness ==
    /\ pc = "encode"
    /\ rounds = 2
    /\ resample_segmentation_to_source_image_size
    /\ dcm.segmentation.file = path_to_seg
    /\ dcm.source_images # source_images
    /\ segmentation.grid = source_images

\* C34: the for loop goes on to the next file only from its head, one file at
\* a time, and only when the file it leaves is complete, has been saved and,
\* when removal is asked for, removed; every save and every removal concerns
\* the file of the current iteration, and every prompt is issued inside an
\* iteration.
C34_OneFileAfterAnother ==
    [][ /\ file_no' # file_no =>
              /\ file_no' = file_no + 1
              /\ pc = "for" /\ pc' = "associate"
              /\ file_no >= 1 =>
                    /\ process_complete
                    /\ SavedFor(path_to_seg) # {}
                    /\ delete_itk_segmentation_files =>
                          \E n \in DOMAIN removed : removed[n] = path_to_seg
        /\ saved' # saved =>
              /\ file_no' = file_no
              /\ \E r \in {saved'[Len(saved')]} :
                    saved' = Append(saved, r) /\ r.src = path_to_seg
        /\ removed' # removed =>
              /\ file_no' = file_no
              /\ removed' = Append(removed, path_to_seg)
        /\ pc' \in {"prompt_index", "await_index", "prompt_more", "await_more"} =>
              /\ file_no' \in 1..Len(paths_to_segmentations')
              /\ \A n \in DOMAIN saved' :
                    \E k \in 1..file_no' : paths_to_segmentations'[k] = saved'[n].src
              /\ \A n \in DOMAIN removed' :
                    \E k \in 1..(file_no' - 1) : paths_to_segmentations'[k] = removed'[n] ]_vars

\* The operator is asked for the series of the second file: the first file
\* had two rounds, was saved twice and has been removed.
C34_Witness ==
    /\ At("await_index")
    /\ file_no = 2
    /\ Cardinality(SavedFor(paths_to_segmentations[1])) = 2
    /\ removed = << paths_to_segmentations[1] >>
    /\ SavedFor(path_to_seg) = {}

\* The entries of the segmentations folder when write() was called (the
\* listing of line 307 once it is taken, the folder itself before).
EntriesAtCall ==
    IF pc \in {"create_writer", "listdir"} THEN segmentations_folder
    ELSE { paths_to_segmentations[k] : k \in DOMAIN paths_to_segmentations }

\* C35: without delete_itk_segmentation_files no step removes an entry of the
\* segmentations folder or changes the DICOM folder; the only entries that
\* appear are written by save_as at the output path of the current round; and
\* save_as creates its file: it never writes over a file that was there when
\* write() was called.
C35_NothingRemovedOnlyOutputsCreated ==
    [][ ~delete_itk_segmentation_files =>
           /\ dicom_folder' = dicom_folder
           /\ removed' = <<>>
           /\ segmentations_folder \subseteq segmentations_folder'
           /\ EntriesAtCall \subseteq segmentations_folder'
           /\ \A f \in segmentations_folder' \ segmentations_folder :
                 pc = "save" /\ f = NewPath(path_to_seg, i)
           /\ pc = "save" => NewPath(path_to_seg, i) \notin EntriesAtCall ]_vars

(***************************************************************************)
(* Further properties of FolderStructurer.                                 *)
(***************************************************************************)
\* C36: once structure has returned on the shared-folder layout, no file
\* name of the shared folder is matched by the matcher for two different
\* patient ids, and no file of the shared folder has a copy in the
\* segmentations folders of two patients.
C36_AtMostOnePatientPerSegmentation ==
    (segmentations_structure_category = AllInOneFolder /\ Returned(<< "structure" >>)) =>
        \A name \in original.shared_segmentations :
            /\ \A id, other \in PatientIds :
                  id # other =>
                     ~(FileMatch(name, id).value /\ FileMatch(name, other).value)
            /\ \A folder, other \in OsListdir(patients_folder, <<>>) :
                  folder # other =>
                     ~(/\ << folder, patient_segmentations_folder_name, name >>
                             \in DOMAIN patients_folder
                       /\ << other, patient_segmentations_folder_name, name >>
                             \in DOMAIN patients_folder)

\* The paths at or below p of the files whose content is `content`.
PathsOf(tree, p, content) ==
    { r \in Under(tree, p) : tree[r].kind # "dir" /\ tree[r].origin = content }

\* C37: while structure runs on the patient-study-series-instance hierarchy,
\* every original DICOM file of a patient is at exactly one path at or below
\* the patient folder (none lost, none written over); and when
\* _destructure_images completes, a patient folder that held n DICOM files
\* holds exactly the entries IM0..IM(n-1), each of them one of these files.
C37_DestructureImagesConservesFiles ==
    [][ (/\ images_structure_category' = PatientStudySeriesInstanceHierarchy
         /\ calls' = << "structure" >>) =>
           \A name \in OsListdir(original.patients_folder', <<>>) :
              LET contents == DicomsUnder(original.patients_folder', << name >>)
                  n == Cardinality(contents)
              IN  /\ \A content \in contents :
                        Cardinality(PathsOf(patients_folder', << name >>, content)) = 1
                  /\ (/\ structurer_pc = "_destructure_images"
                      /\ structurer_pc' = "_structure_segmentations") =>
                        /\ OsListdir(patients_folder', << name >>)
                             = { IM(k) : k \in 0..(n - 1) }
                        /\ { patients_folder'[<< name, IM(k) >>].origin : k \in 0..(n - 1) }
                             = contents ]_vars

\* _destructure_images has completed on a patient folder of two DICOM files,
\* one of them named IM0 from the start, the other renamed IM1.
C37_Witness ==
    /\ images_structure_category = PatientStudySeriesInstanceHierarchy
    /\ calls = << "structure" >>
    /\ structurer_pc = "_structure_segmentations"
    /\ loop.current_index = 0
    /\ \E name \in OsListdir(patients_folder, <<>>) :
          /\ OsListdir(patients_folder, << name >>) = { IM(0), IM(1) }
          /\ patients_folder[<< name, IM(0) >>].origin[4] = IM(0)
          /\ patients_folder[<< name, IM(1) >>].origin[4] = << "C", "T" >>

\* C38: once structure has been called on the layout with the images all in
\* one folder and the segmentation files in each patient folder, it has
\* returned without raising, and the tree under the patients folder and the
\* shared folder are what they were before the call.
C38_StructureOnRequiredLayoutChangesNothing ==
    (/\ images_structure_category = AllInOne
     /\ segmentations_structure_category = InEachPatientFolder
     /\ calls = << "structure" >>) =>
        /\ structurer_pc = "idle"
        /\ structurer_raised = NoException
        /\ patients_folder = original.patients_folder
        /\ shared_segmentations = original.shared_segmentations

\* structure has returned on that layout, a patient folder holding an image
\* and a segmentation file.
C38_Witness ==
    /\ images_structure_category = AllInOne
    /\ segmentations_structure_category = InEachPatientFolder
    /\ Returned(<< "structure" >>)
    /\ \E name \in OsListdir(patients_folder, <<>>) :
          /\ OsListdir(patients_folder, << name, patient_images_folder_name >>) # {}
          /\ OsListdir(patients_folder, << name, patient_segmentations_folder_name >>) # {}

=============================================================================
